---- MODULE Spec2Model ----
(***************************************************************************)
(* Reference-counted SharedPtr / WeakPtr of src/src/sp.hpp (with the       *)
(* second WeakPtr::lock of src/src/shared_ptr.hpp), as a state machine.    *)
(*                                                                         *)
(* Handles live in slots; a thread runs one public operation at a time on  *)
(* the slots it names, one atomic access of a control block per step.      *)
(* Handle objects are never accessed concurrently in conflicting ways      *)
(* (the caller's obligation); control blocks are shared freely.            *)
(*                                                                         *)
(* A control block whose storage destroy_block has released is dangling:   *)
(* every later load of one of its counters is undefined behaviour and      *)
(* returns any value of Garbage.                                           *)
(*                                                                         *)
(* Spec and SpecSeq run the handle operations on several threads and on    *)
(* one; SpecAdopted makes every block by adopting a raw pointer;           *)
(* SpecWorkers runs TEST_CASE(thread_safety) of src/src/sp_test.cpp;       *)
(* SpecFactory runs the factories one allocate and one constructor call    *)
(* per step, each of which may throw; SpecArray runs threads on the        *)
(* handles of one array; SpecRelease and SpecWorkersFair add the           *)
(* scheduler's fairness for the properties that say something happens.     *)
(***************************************************************************)
EXTENDS Integers, FiniteSets, Sequences, TLC

\* ----------------------------------------------------------------- bounds
NThreads == 2      \* threads of the concurrent specification
NStrong == 2       \* SharedPtr handle slots
NWeak == 2         \* WeakPtr handle slots
NBlocks == 2       \* control blocks the sequential specification may allocate
ConcBlocks == 1    \* control blocks the concurrent specification may allocate
MaxGarbage == 1    \* a load from freed storage returns a value of 0..MaxGarbage
MaxCalls == 2      \* the call counters saturate here
MaxSize == 3       \* largest array size requested
MaxIter == 2       \* iterations of a worker of the thread_safety scenario

Threads == 1..NThreads
SSlots == 1..NStrong
WSlots == 1..NWeak
Blocks == 1..NBlocks
Garbage == 0..MaxGarbage

Min(a, b) == IF a < b THEN a ELSE b

\* ------------------------------------------------------------------ state
VARIABLES
    sp,                 \* SharedPtr handles: slot -> [ptr, ctl] (0 is nullptr)
    wp,                 \* WeakPtr handles:   slot -> [ptr, ctl]
    blockState,         \* block -> "unallocated" | "valid" | "freed"
    strongCount,        \* IControlBlockBase::strongCount
    weakCount,          \* IControlBlockBase::weakCount
    payload,            \* block -> "none" | "live" | "destroyed"
    destroyObjectCalls, \* how often destroy_object() ran on the block
    destroyBlockCalls,  \* how often destroy_block() ran on the block
    useAfterFree,       \* block -> a freed block was accessed
    heap,               \* how many more control blocks the allocator can supply
    th,                 \* thread -> the operation in progress and its locals
    prog,               \* worker thread -> its place in the thread_safety test
    fac                 \* the latest factory call: its locals and what it
                        \* allocated, constructed, destroyed and deallocated

vars == <<sp, wp, blockState, strongCount, weakCount, payload,
          destroyObjectCalls, destroyBlockCalls, useAfterFree, heap, th,
          prog, fac>>

\* The state of the scenario specifications, which the operations on handle
\* slots leave alone.
extVars == <<prog, fac>>

blockVars == <<blockState, strongCount, weakCount, payload,
               destroyObjectCalls, destroyBlockCalls, useAfterFree, heap>>

NullH == [ptr |-> 0, ctl |-> 0]

\* A thread between operations.  sW/wW: slots the running operation writes,
\* sR/wR: slots it only reads; zero: its fetch_sub took strongCount of a live
\* block from 1 to 0.
IdleT == [pc |-> "idle", ctl |-> 0, ptr |-> 0, cnt |-> 0, op |-> "none",
          src |-> 0, zero |-> FALSE,
          sW |-> {}, sR |-> {}, wW |-> {}, wR |-> {}]

\* Thread t may take up a new operation.  Threads are interchangeable, so a
\* new operation goes to the first thread that is between operations.
Idle(t) ==
    /\ th[t].pc = "idle"
    /\ \A u \in Threads : u < t => th[u].pc # "idle"

\* Slot i may be modified / read by a new operation.
SFreeW(i) == \A u \in Threads : i \notin th[u].sW \cup th[u].sR
SFreeR(i) == \A u \in Threads : i \notin th[u].sW
WFreeW(k) == \A u \in Threads : k \notin th[u].wW \cup th[u].wR
WFreeR(k) == \A u \in Threads : k \notin th[u].wW

\* Slot j receives a newly constructed handle: slots are interchangeable, so
\* a new handle takes the first slot that holds none and is in no one's use.
NewS(j) ==
    /\ sp[j] = NullH /\ SFreeW(j)
    /\ \A i \in SSlots : i < j => ~(sp[i] = NullH /\ SFreeW(i))
NewW(l) ==
    /\ wp[l] = NullH /\ WFreeW(l)
    /\ \A k \in WSlots : k < l => ~(wp[k] = NullH /\ WFreeW(k))

\* A worker of the thread_safety test before its first iteration: its
\* position in the loop body, the iterations it has finished, and the three
\* handles local to the loop body.
WorkerStart == [pc |-> "copy", iter |-> 0, cnt |-> 0,
                local_copy |-> NullH, weak |-> NullH, locked |-> NullH]

\* No factory call has been made.  kind: the factory; size: the array size
\* requested; slot: where the result goes; allocCalls: calls of allocate;
\* elemAllocated / elemDeallocated: the n of allocate(n) / deallocate(ptr, n)
\* of the element storage (0: no such call); elems: per element "raw",
\* "live", "destroyed" or "bad" (destroyed twice or destroyed raw); cur:
\* elements constructed so far; blockStore: the control-block storage;
\* failedAt: the step that threw; outcome: how the call ended.
NoCall == [kind |-> "none", size |-> 0, slot |-> 0, allocCalls |-> 0,
           elemAllocated |-> 0, elemDeallocated |-> 0, elems |-> <<>>,
           cur |-> 0, blockStore |-> "none", failedAt |-> "none",
           outcome |-> "none"]

Valid(b) == blockState[b] = "valid"

\* The values std::atomic::load can return for a counter of block b.
Load(counter, b) == IF Valid(b) THEN {counter[b]} ELSE Garbage

\* Any access of block b; on a freed block it is a use after free.
Touch(b) == useAfterFree' = [useAfterFree EXCEPT ![b] = @ \/ ~Valid(b)]

InitWith(capacity) ==
    /\ heap = capacity
    /\ sp = [i \in SSlots |-> NullH]
    /\ wp = [k \in WSlots |-> NullH]
    /\ blockState = [b \in Blocks |-> "unallocated"]
    /\ strongCount = [b \in Blocks |-> 0]
    /\ weakCount = [b \in Blocks |-> 0]
    /\ payload = [b \in Blocks |-> "none"]
    /\ destroyObjectCalls = [b \in Blocks |-> 0]
    /\ destroyBlockCalls = [b \in Blocks |-> 0]
    /\ useAfterFree = [b \in Blocks |-> FALSE]
    /\ th = [t \in Threads |-> IdleT]
    /\ prog = [t \in Threads |-> WorkerStart]
    /\ fac = NoCall

Init == InitWith(ConcBlocks)
InitSeq == InitWith(NBlocks)

\* ------------------------------------------------- reference count helpers

\* A fetch_add that adds 2.
FetchAdd_two(old) == old + 2

\* counter.fetch_add(1): the value stored from the value read.
FetchAdd(old) == old + 1

\* counter.fetch_sub(1): the value stored from the value read.
FetchSub(old) == old - 1

\* incr_ref(ctl, ctl->strongCount)
incr_strong_ref(ctl) ==
    IF ctl = 0
    THEN UNCHANGED <<strongCount, useAfterFree>>
    ELSE /\ \E old \in Load(strongCount, ctl) :
              strongCount' = IF Valid(ctl)
                             THEN [strongCount EXCEPT ![ctl] = FetchAdd(old)]
                             ELSE strongCount
         /\ Touch(ctl)

\* incr_ref(ctl, ctl->weakCount)
incr_weak_ref(ctl) ==
    IF ctl = 0
    THEN UNCHANGED <<weakCount, useAfterFree>>
    ELSE /\ \E old \in Load(weakCount, ctl) :
              weakCount' = IF Valid(ctl)
                           THEN [weakCount EXCEPT ![ctl] = FetchAdd(old)]
                           ELSE weakCount
         /\ Touch(ctl)

\* Where a thread goes when the release it ran has returned.
AfterRelease(r) ==
    IF r.op = "copy_assign"
    THEN [r EXCEPT !.pc = "ca_acquire", !.ctl = 0, !.zero = FALSE]
    ELSE IdleT

\* A release that compares the value fetch_sub returns with 0, as if it were
\* the new value of the counter.
LastStrong_newValue(oldCount) == oldCount = 0

\* `oldCount == 1` of release_shared_ref.
LastStrong(oldCount) == oldCount = 1

\* `fetch_sub(1) == 1` of release_weak_ref.
LastWeak(oldCount) == oldCount = 1

\* release_shared_ref(ctl), up to and including its fetch_sub; r is the
\* thread's record while the release runs.
release_shared_ref(t, ctl, r) ==
    IF ctl = 0
    THEN /\ th' = [th EXCEPT ![t] = AfterRelease(r)]
         /\ UNCHANGED <<strongCount, useAfterFree>>
    ELSE \E oldCount \in Load(strongCount, ctl) :
         /\ strongCount' = IF Valid(ctl)
                           THEN [strongCount EXCEPT ![ctl] = FetchSub(oldCount)]
                           ELSE strongCount
         /\ Touch(ctl)
         /\ th' = [th EXCEPT ![t] =
                     IF LastStrong(oldCount)
                     THEN [r EXCEPT !.pc = "rel_obj", !.ctl = ctl,
                                    !.zero = Valid(ctl) /\ oldCount = 1]
                     ELSE AfterRelease(r)]

\* release_weak_ref(ctl), up to and including its fetch_sub.
release_weak_ref(t, ctl, r) ==
    IF ctl = 0
    THEN /\ th' = [th EXCEPT ![t] = AfterRelease(r)]
         /\ UNCHANGED <<weakCount, useAfterFree>>
    ELSE \E oldCount \in Load(weakCount, ctl) :
         /\ weakCount' = IF Valid(ctl)
                         THEN [weakCount EXCEPT ![ctl] = FetchSub(oldCount)]
                         ELSE weakCount
         /\ Touch(ctl)
         /\ th' = [th EXCEPT ![t] =
                     IF LastWeak(oldCount)
                     THEN [r EXCEPT !.pc = "rw_load", !.ctl = ctl]
                     ELSE AfterRelease(r)]

\* --------------------------------------------- steps of a running release

\* ctl->destroy_object() of release_shared_ref.
DestroyObject(t) ==
    /\ th[t].pc = "rel_obj"
    /\ LET b == th[t].ctl IN
       /\ destroyObjectCalls' =
              [destroyObjectCalls EXCEPT ![b] = Min(@ + 1, MaxCalls)]
       /\ payload' = [payload EXCEPT ![b] = "destroyed"]
       /\ Touch(b)
    /\ th' = [th EXCEPT ![t].pc = "rel_load"]
    /\ UNCHANGED <<sp, wp, blockState, strongCount, weakCount,
                   destroyBlockCalls, heap>>
    /\ UNCHANGED extVars

\* A release_shared_ref that never frees the block.
LoadWeak_neverFrees(t) ==
    /\ th[t].pc = "rel_load"
    /\ th' = [th EXCEPT ![t] = AfterRelease(@)]
    /\ Touch(th[t].ctl)
    /\ UNCHANGED <<sp, wp, blockState, strongCount, weakCount, payload,
                   destroyObjectCalls, destroyBlockCalls, heap>>
    /\ UNCHANGED extVars

\* A release_shared_ref that frees the block after the last SharedPtr
\* without testing weakCount.
LoadWeak_noTest(t) ==
    /\ th[t].pc = "rel_load"
    /\ th' = [th EXCEPT ![t].pc = "rel_blk"]
    /\ Touch(th[t].ctl)
    /\ UNCHANGED <<sp, wp, blockState, strongCount, weakCount, payload,
                   destroyObjectCalls, destroyBlockCalls, heap>>
    /\ UNCHANGED extVars

\* `ctl->weakCount.load() == 0` of release_shared_ref.
LoadWeak(t) ==
    /\ th[t].pc = "rel_load"
    /\ \E w \in Load(weakCount, th[t].ctl) :
          th' = [th EXCEPT ![t] = IF w = 0 THEN [@ EXCEPT !.pc = "rel_blk"]
                                  ELSE AfterRelease(@)]
    /\ Touch(th[t].ctl)
    /\ UNCHANGED <<sp, wp, blockState, strongCount, weakCount, payload,
                   destroyObjectCalls, destroyBlockCalls, heap>>
    /\ UNCHANGED extVars

\* A release_weak_ref that frees the block after the last WeakPtr without
\* testing strongCount.
LoadStrong_noTest(t) ==
    /\ th[t].pc = "rw_load"
    /\ th' = [th EXCEPT ![t].pc = "rel_blk"]
    /\ Touch(th[t].ctl)
    /\ UNCHANGED <<sp, wp, blockState, strongCount, weakCount, payload,
                   destroyObjectCalls, destroyBlockCalls, heap>>
    /\ UNCHANGED extVars

\* `ctl->strongCount.load() == 0` of release_weak_ref.
LoadStrong(t) ==
    /\ th[t].pc = "rw_load"
    /\ \E s \in Load(strongCount, th[t].ctl) :
          th' = [th EXCEPT ![t] = IF s = 0 THEN [@ EXCEPT !.pc = "rel_blk"]
                                  ELSE AfterRelease(@)]
    /\ Touch(th[t].ctl)
    /\ UNCHANGED <<sp, wp, blockState, strongCount, weakCount, payload,
                   destroyObjectCalls, destroyBlockCalls, heap>>
    /\ UNCHANGED extVars

\* ctl->destroy_block() of release_shared_ref and release_weak_ref.
DestroyBlock(t) ==
    /\ th[t].pc = "rel_blk"
    /\ LET b == th[t].ctl IN
       /\ destroyBlockCalls' =
              [destroyBlockCalls EXCEPT ![b] = Min(@ + 1, MaxCalls)]
       /\ blockState' = [blockState EXCEPT ![b] = "freed"]
       /\ Touch(b)
    /\ th' = [th EXCEPT ![t] = AfterRelease(@)]
    /\ UNCHANGED <<sp, wp, strongCount, weakCount, payload,
                   destroyObjectCalls, heap>>
    /\ UNCHANGED extVars

\* ------------------------------------------------------------- factories

\* ControlBlock of shared_ptr.hpp: `std::atomic<int> strongCount{1}`.
InitialStrong_shared_ptr == 1

\* IControlBlockBase: `std::atomic_long strongCount{0}` and `weakCount{0}`.
InitialStrong == 0
InitialWeak == 0

HasFreshBlock == heap > 0 /\ \E b \in Blocks : blockState[b] = "unallocated"
FreshBlock ==
    CHOOSE b \in Blocks :
        /\ blockState[b] = "unallocated"
        /\ \A c \in Blocks : c < b => blockState[c] # "unallocated"

\* allocate(1) and construct_at of a control block around a live payload; no
\* handle refers to it yet.
NewBlock(b) ==
    /\ blockState' = [blockState EXCEPT ![b] = "valid"]
    /\ strongCount' = [strongCount EXCEPT ![b] = InitialStrong]
    /\ weakCount' = [weakCount EXCEPT ![b] = InitialWeak]
    /\ payload' = [payload EXCEPT ![b] = "live"]
    /\ heap' = heap - 1
    /\ UNCHANGED <<destroyObjectCalls, destroyBlockCalls, useAfterFree>>

\* A handle under construction that is given the block but a null payload
\* pointer.
Constructing_nullPtr(b, i, blockKind) ==
    [IdleT EXCEPT !.pc = "make_incr", !.ctl = b, !.ptr = 0, !.op = blockKind,
                  !.sW = {i}]

\* The thread's record while the handle of a new block of the given kind
\* ("direct", "array" or "ptr") is being constructed into slot i.
Constructing(b, i, blockKind) ==
    [IdleT EXCEPT !.pc = "make_incr", !.ctl = b, !.ptr = b, !.op = blockKind,
                  !.sW = {i}]

\* make_shared / allocated_shared: alloc_shared_impl up to construct_at.
alloc_shared_impl(t, i) ==
    /\ Idle(t) /\ NewS(i) /\ HasFreshBlock
    /\ NewBlock(FreshBlock)
    /\ th' = [th EXCEPT ![t] = Constructing(FreshBlock, i, "direct")]
    /\ UNCHANGED <<sp, wp>>
    /\ UNCHANGED extVars

\* make_shared_array / allocate_shared_array: alloc_shared_array_impl up to
\* the construct_at of the block; size 0 returns an empty handle at once.
alloc_shared_array_impl(t, i, size) ==
    /\ Idle(t) /\ NewS(i)
    /\ IF size = 0
       THEN UNCHANGED vars
       ELSE /\ HasFreshBlock
            /\ NewBlock(FreshBlock)
            /\ th' = [th EXCEPT ![t] = Constructing(FreshBlock, i, "array")]
            /\ UNCHANGED <<sp, wp>>
    /\ UNCHANGED extVars

\* A constructor that adopts whatever pointer it is given, null included.
AdoptsNothing_never(isNull) == isNull /\ ~isNull

\* `if (ptr)` of SharedPtr(from_raw_ptr_with_deleter_tag, ptr, d, alloc) and
\* `if (!ptr) return nullptr` of create_ctl_block: a null pointer is not
\* adopted.
AdoptsNothing(isNull) == isNull

\* SharedPtr(from_raw_ptr_with_deleter, ptr, d, alloc) up to create_ctl_block;
\* a null ptr leaves the handle empty and allocates nothing.
SharedPtrFromRaw(t, i, isNull) ==
    /\ Idle(t) /\ NewS(i)
    /\ IF AdoptsNothing(isNull)
       THEN UNCHANGED vars
       ELSE /\ HasFreshBlock
            /\ NewBlock(FreshBlock)
            /\ th' = [th EXCEPT ![t] = Constructing(FreshBlock, i, "ptr")]
            /\ UNCHANGED <<sp, wp>>
    /\ UNCHANGED extVars

\* SharedPtr(T* ptr, IControlBlockBase* ctl): m_ptr(ptr), m_ctl(ctl), then
\* incr_strong_ref(m_ctl); also the tail of the raw-pointer constructor.
SharedPtrCtor(t) ==
    /\ th[t].pc = "make_incr"
    /\ \E i \in th[t].sW :
          sp' = [sp EXCEPT ![i] = [ptr |-> th[t].ptr, ctl |-> th[t].ctl]]
    /\ incr_strong_ref(th[t].ctl)
    /\ th' = [th EXCEPT ![t] = IdleT]
    /\ UNCHANGED <<wp, blockState, weakCount, payload,
                   destroyObjectCalls, destroyBlockCalls, heap>>
    /\ UNCHANGED extVars

\* ---------------------------------------------------- SharedPtr operations

\* SharedPtr(const SharedPtr& other): a new handle in slot j copied from i.
SharedPtrCopy(t, i, j) ==
    /\ Idle(t) /\ i # j /\ SFreeR(i) /\ NewS(j)
    /\ sp' = [sp EXCEPT ![j] = sp[i]]
    /\ incr_strong_ref(sp[i].ctl)
    /\ UNCHANGED <<wp, th, blockState, weakCount, payload,
                   destroyObjectCalls, destroyBlockCalls, heap>>
    /\ UNCHANGED extVars

\* A move that copies the pointers and leaves the source as it was.
MoveConstructed_copy(h, i, j) == [h EXCEPT ![j] = h[i]]

\* Move construction of handle j from handle i of the handles h:
\* m_ptr(std::exchange(other.m_ptr, nullptr)), likewise m_ctl.
MoveConstructed(h, i, j) == [h EXCEPT ![j] = h[i], ![i] = NullH]

\* A move assignment that empties its source whatever the destination.
MoveAssigned_selfEmpties(h, i, j) == [h EXCEPT ![j] = h[i], ![i] = NullH]

\* Handles after `h[j] = std::move(h[i])`, which is
\* Handle(std::move(other)).swap(*this): with this == &other the temporary
\* ends up empty and the handle keeps its pointers.
MoveAssigned(h, i, j) == IF i = j THEN h ELSE MoveConstructed(h, i, j)

\* SharedPtr(SharedPtr&& other): a new handle in slot j takes i's pointers.
SharedPtrMove(t, i, j) ==
    /\ Idle(t) /\ i # j /\ SFreeW(i) /\ NewS(j)
    /\ sp' = MoveConstructed(sp, i, j)
    /\ UNCHANGED <<wp, th>>
    /\ UNCHANGED blockVars
    /\ UNCHANGED extVars

\* ~SharedPtr(): release_shared_ref(m_ctl); the handle is gone afterwards.
SharedPtrDtor(t, i) ==
    /\ Idle(t) /\ SFreeW(i) /\ sp[i] # NullH
    /\ sp' = [sp EXCEPT ![i] = NullH]
    /\ release_shared_ref(t, sp[i].ctl, [IdleT EXCEPT !.sW = {i}])
    /\ UNCHANGED <<wp, blockState, weakCount, payload,
                   destroyObjectCalls, destroyBlockCalls, heap>>
    /\ UNCHANGED extVars

\* reset(): SharedPtr().swap(*this); the temporary then releases the old
\* block.
SharedPtrReset(t, i) ==
    /\ Idle(t) /\ SFreeW(i)
    /\ sp' = [sp EXCEPT ![i] = NullH]
    /\ release_shared_ref(t, sp[i].ctl, [IdleT EXCEPT !.sW = {i}])
    /\ UNCHANGED <<wp, blockState, weakCount, payload,
                   destroyObjectCalls, destroyBlockCalls, heap>>
    /\ UNCHANGED extVars

\* operator=(const SharedPtr& other) of SharedPtr<T>: nothing when
\* this == &other, else release_shared_ref(m_ctl) first ...
SharedPtrCopyAssign(t, i, j) ==
    /\ Idle(t) /\ SFreeR(i) /\ SFreeW(j)
    /\ IF i = j
       THEN UNCHANGED vars
       ELSE /\ release_shared_ref(t, sp[j].ctl,
                  [IdleT EXCEPT !.op = "copy_assign", !.src = i,
                                !.sR = {i}, !.sW = {j}])
            /\ UNCHANGED <<sp, wp, blockState, weakCount, payload,
                           destroyObjectCalls, destroyBlockCalls, heap>>
    /\ UNCHANGED extVars

\* A copy assignment that takes the pointers of its source without
\* incr_strong_ref.
SharedPtrCopyAssignAcquire_noIncr(t) ==
    /\ th[t].pc = "ca_acquire"
    /\ \E j \in th[t].sW : sp' = [sp EXCEPT ![j] = sp[th[t].src]]
    /\ th' = [th EXCEPT ![t] = IdleT]
    /\ UNCHANGED <<wp>>
    /\ UNCHANGED blockVars
    /\ UNCHANGED extVars

\* ... then m_ptr = other.m_ptr; m_ctl = other.m_ctl; incr_strong_ref(m_ctl).
SharedPtrCopyAssignAcquire(t) ==
    /\ th[t].pc = "ca_acquire"
    /\ \E j \in th[t].sW : sp' = [sp EXCEPT ![j] = sp[th[t].src]]
    /\ incr_strong_ref(sp[th[t].src].ctl)
    /\ th' = [th EXCEPT ![t] = IdleT]
    /\ UNCHANGED <<wp, blockState, weakCount, payload,
                   destroyObjectCalls, destroyBlockCalls, heap>>
    /\ UNCHANGED extVars

\* operator=(SharedPtr&& other): SharedPtr(std::move(other)).swap(*this);
\* the temporary then releases what *this held.  With this == &other the
\* temporary ends up empty and the handle keeps its pointers.
SharedPtrMoveAssign(t, i, j) ==
    /\ Idle(t) /\ SFreeW(i) /\ SFreeW(j)
    /\ sp' = MoveAssigned(sp, i, j)
    /\ IF i = j
       THEN UNCHANGED <<wp, th>> /\ UNCHANGED blockVars
       ELSE /\ release_shared_ref(t, sp[j].ctl, [IdleT EXCEPT !.sW = {i, j}])
            /\ UNCHANGED <<wp, blockState, weakCount, payload,
                           destroyObjectCalls, destroyBlockCalls, heap>>
    /\ UNCHANGED extVars

\* SharedPtr<T[]>::operator=(const SharedPtr& other):
\* SharedPtr(other).swap(*this); the copy takes its unit before the temporary
\* releases what *this held.
SharedPtrArrayCopyAssign(t, i, j) ==
    /\ Idle(t) /\ SFreeR(i) /\ SFreeW(j)
    /\ sp' = [sp EXCEPT ![j] = sp[i]]
    /\ incr_strong_ref(sp[i].ctl)
    /\ th' = [th EXCEPT ![t] =
                [IdleT EXCEPT !.pc = "sa_release", !.ctl = sp[j].ctl,
                              !.sW = {j}, !.sR = {i} \ {j}]]
    /\ UNCHANGED <<wp, blockState, weakCount, payload,
                   destroyObjectCalls, destroyBlockCalls, heap>>
    /\ UNCHANGED extVars

\* The temporary of SharedPtr<T[]>::operator=(const SharedPtr&) is destroyed.
SharedPtrArrayCopyAssignRelease(t) ==
    /\ th[t].pc = "sa_release"
    /\ release_shared_ref(t, th[t].ctl, [th[t] EXCEPT !.ctl = 0])
    /\ UNCHANGED <<sp, wp, blockState, weakCount, payload,
                   destroyObjectCalls, destroyBlockCalls, heap>>
    /\ UNCHANGED extVars

\* swap(SharedPtr& other)
SharedPtrSwap(t, i, j) ==
    /\ Idle(t) /\ SFreeW(i) /\ SFreeW(j)
    /\ sp' = [sp EXCEPT ![i] = sp[j], ![j] = sp[i]]
    /\ UNCHANGED <<wp, th>>
    /\ UNCHANGED blockVars
    /\ UNCHANGED extVars

\* ------------------------------------------------------ WeakPtr operations

\* WeakPtr(const SharedPtr<U>& other)
WeakPtrFromShared(t, i, k) ==
    /\ Idle(t) /\ SFreeR(i) /\ NewW(k)
    /\ wp' = [wp EXCEPT ![k] = sp[i]]
    /\ incr_weak_ref(sp[i].ctl)
    /\ UNCHANGED <<sp, th, blockState, strongCount, payload,
                   destroyObjectCalls, destroyBlockCalls, heap>>
    /\ UNCHANGED extVars

\* WeakPtr(const WeakPtr& other)
WeakPtrCopy(t, k, l) ==
    /\ Idle(t) /\ k # l /\ WFreeR(k) /\ NewW(l)
    /\ wp' = [wp EXCEPT ![l] = wp[k]]
    /\ incr_weak_ref(wp[k].ctl)
    /\ UNCHANGED <<sp, th, blockState, strongCount, payload,
                   destroyObjectCalls, destroyBlockCalls, heap>>
    /\ UNCHANGED extVars

\* WeakPtr(WeakPtr&& other)
WeakPtrMove(t, k, l) ==
    /\ Idle(t) /\ k # l /\ WFreeW(k) /\ NewW(l)
    /\ wp' = MoveConstructed(wp, k, l)
    /\ UNCHANGED <<sp, th>>
    /\ UNCHANGED blockVars
    /\ UNCHANGED extVars

\* ~WeakPtr(): release_weak_ref(m_ctl)
WeakPtrDtor(t, k) ==
    /\ Idle(t) /\ WFreeW(k) /\ wp[k] # NullH
    /\ wp' = [wp EXCEPT ![k] = NullH]
    /\ release_weak_ref(t, wp[k].ctl, [IdleT EXCEPT !.wW = {k}])
    /\ UNCHANGED <<sp, blockState, strongCount, payload,
                   destroyObjectCalls, destroyBlockCalls, heap>>
    /\ UNCHANGED extVars

\* WeakPtr::operator=(const WeakPtr& other): WeakPtr(other).swap(*this); the
\* copy takes its unit before the temporary releases what *this held.
WeakPtrCopyAssign(t, k, l) ==
    /\ Idle(t) /\ WFreeR(k) /\ WFreeW(l)
    /\ wp' = [wp EXCEPT ![l] = wp[k]]
    /\ incr_weak_ref(wp[k].ctl)
    /\ th' = [th EXCEPT ![t] =
                [IdleT EXCEPT !.pc = "wa_release", !.ctl = wp[l].ctl,
                              !.wW = {l}, !.wR = {k} \ {l}]]
    /\ UNCHANGED <<sp, blockState, strongCount, payload,
                   destroyObjectCalls, destroyBlockCalls, heap>>
    /\ UNCHANGED extVars

\* The temporary of WeakPtr::operator=(const WeakPtr&) is destroyed.
WeakPtrCopyAssignRelease(t) ==
    /\ th[t].pc = "wa_release"
    /\ release_weak_ref(t, th[t].ctl, [th[t] EXCEPT !.ctl = 0])
    /\ UNCHANGED <<sp, wp, blockState, strongCount, payload,
                   destroyObjectCalls, destroyBlockCalls, heap>>
    /\ UNCHANGED extVars

\* WeakPtr::operator=(WeakPtr&& other): WeakPtr(std::move(other)).swap(*this)
WeakPtrMoveAssign(t, k, l) ==
    /\ Idle(t) /\ WFreeW(k) /\ WFreeW(l)
    /\ wp' = MoveAssigned(wp, k, l)
    /\ IF k = l
       THEN UNCHANGED <<sp, th>> /\ UNCHANGED blockVars
       ELSE /\ release_weak_ref(t, wp[l].ctl, [IdleT EXCEPT !.wW = {k, l}])
            /\ UNCHANGED <<sp, blockState, strongCount, payload,
                           destroyObjectCalls, destroyBlockCalls, heap>>
    /\ UNCHANGED extVars

\* WeakPtr::swap(WeakPtr& other)
WeakPtrSwap(t, k, l) ==
    /\ Idle(t) /\ WFreeW(k) /\ WFreeW(l)
    /\ wp' = [wp EXCEPT ![k] = wp[l], ![l] = wp[k]]
    /\ UNCHANGED <<sp, th>>
    /\ UNCHANGED blockVars
    /\ UNCHANGED extVars

\* ------------------------------------------------------------------ lock()

\* A loop test that lets an upgrade start from any observation, zero included.
LockMayAcquire_anyCount(count) == count = count

\* `while (count != 0)` of weak_ptr_lock_impl: an upgrade is attempted only
\* from a non-zero observation.
LockMayAcquire(count) == count # 0

\* The thread's record while lock() on weak slot k builds its result in
\* strong slot j.
Locking(label, h, count, k, j) ==
    [IdleT EXCEPT !.pc = label, !.ctl = h.ctl, !.ptr = h.ptr, !.cnt = count,
                  !.sW = {j}, !.wR = {k}]

\* A compare_exchange_weak that fails every time.
CompareExchangeWeak_neverSucceeds(b, expected, actual, spurious, ok) ==
    /\ actual \in Load(strongCount, b)
    /\ ok = FALSE
    /\ strongCount' = strongCount
    /\ Touch(b)

\* compare_exchange_weak(count, count + 1) on strongCount of block b: TRUE
\* with the new value stored, or FALSE with count reloaded; it may fail
\* spuriously.
CompareExchangeWeak(b, expected, actual, spurious, ok) ==
    /\ actual \in Load(strongCount, b)
    /\ ok = (actual = expected /\ ~spurious)
    /\ strongCount' = IF ok /\ Valid(b)
                      THEN [strongCount EXCEPT ![b] = expected + 1]
                      ELSE strongCount
    /\ Touch(b)

\* WeakPtr::lock() of sp.hpp: weak_ptr_lock_impl(m_ptr, m_ctl) up to the first
\* test of its while loop.
WeakPtrLock(t, k, j) ==
    /\ Idle(t) /\ WFreeR(k) /\ NewS(j)
    /\ IF wp[k].ctl = 0
       THEN UNCHANGED vars
       ELSE /\ \E count \in Load(strongCount, wp[k].ctl) :
                 th' = [th EXCEPT ![t] =
                          IF LockMayAcquire(count)
                          THEN Locking("lock_cas", wp[k], count, k, j)
                          ELSE IdleT]
            /\ Touch(wp[k].ctl)
            /\ UNCHANGED <<sp, wp, blockState, strongCount, weakCount,
                           payload, destroyObjectCalls, destroyBlockCalls, heap>>
    /\ UNCHANGED extVars

\* One iteration of the while loop of weak_ptr_lock_impl.
WeakPtrLockCas(t) ==
    /\ th[t].pc = "lock_cas"
    /\ \E actual \in Garbage \cup {strongCount[th[t].ctl]},
          spurious, ok \in BOOLEAN :
          /\ CompareExchangeWeak(th[t].ctl, th[t].cnt, actual, spurious, ok)
          /\ IF ok
             THEN /\ \E j \in th[t].sW :
                        sp' = [sp EXCEPT ![j] = [ptr |-> th[t].ptr,
                                                 ctl |-> th[t].ctl]]
                  /\ th' = [th EXCEPT ![t] = IdleT]
             ELSE /\ sp' = sp
                  /\ th' = [th EXCEPT ![t] =
                              IF LockMayAcquire(actual)
                              THEN [@ EXCEPT !.cnt = actual]
                              ELSE IdleT]
    /\ UNCHANGED <<wp, blockState, weakCount, payload,
                   destroyObjectCalls, destroyBlockCalls, heap>>
    /\ UNCHANGED extVars

\* WeakPtr::lock() of shared_ptr.hpp up to the first `if (count == 0) break`
\* of its do-while loop; leaving the loop with count == 0 returns the empty
\* result.
WeakPtrLockDo(t, k, j) ==
    /\ Idle(t) /\ WFreeR(k) /\ NewS(j)
    /\ IF wp[k].ctl = 0
       THEN UNCHANGED vars
       ELSE /\ \E count \in Load(strongCount, wp[k].ctl) :
                 th' = [th EXCEPT ![t] =
                          IF count = 0
                          THEN IdleT
                          ELSE Locking("lock_do", wp[k], count, k, j)]
            /\ Touch(wp[k].ctl)
            /\ UNCHANGED <<sp, wp, blockState, strongCount, weakCount,
                           payload, destroyObjectCalls, destroyBlockCalls, heap>>
    /\ UNCHANGED extVars

\* The `while (!compare_exchange_weak(...))` of shared_ptr.hpp's lock(), the
\* `if (count == 0) break` that follows a failure, and the final
\* `if (count != 0)` that fills the result.
WeakPtrLockDoCas(t) ==
    /\ th[t].pc = "lock_do"
    /\ \E actual \in Garbage \cup {strongCount[th[t].ctl]},
          spurious, ok \in BOOLEAN :
          /\ CompareExchangeWeak(th[t].ctl, th[t].cnt, actual, spurious, ok)
          /\ LET count == IF ok THEN th[t].cnt ELSE actual IN
             IF ok \/ count = 0
             THEN /\ th' = [th EXCEPT ![t] = IdleT]
                  /\ IF count # 0
                     THEN \E j \in th[t].sW :
                            sp' = [sp EXCEPT ![j] = [ptr |-> th[t].ptr,
                                                     ctl |-> th[t].ctl]]
                     ELSE sp' = sp
             ELSE /\ th' = [th EXCEPT ![t].cnt = count]
                  /\ sp' = sp
    /\ UNCHANGED <<wp, blockState, weakCount, payload,
                   destroyObjectCalls, destroyBlockCalls, heap>>
    /\ UNCHANGED extVars

\* ------------------------------------------------------------ specification
HandleStep(t) ==
        \/ SharedPtrCtor(t)
        \/ \E i, j \in SSlots : SharedPtrCopy(t, i, j)
        \/ \E i, j \in SSlots : SharedPtrMove(t, i, j)
        \/ \E i \in SSlots : SharedPtrDtor(t, i)
        \/ \E i \in SSlots : SharedPtrReset(t, i)
        \/ \E i, j \in SSlots : SharedPtrCopyAssign(t, i, j)
        \/ SharedPtrCopyAssignAcquire(t)
        \/ \E i, j \in SSlots : SharedPtrMoveAssign(t, i, j)
        \/ \E i, j \in SSlots : SharedPtrArrayCopyAssign(t, i, j)
        \/ SharedPtrArrayCopyAssignRelease(t)
        \/ \E i, j \in SSlots : SharedPtrSwap(t, i, j)
        \/ \E i \in SSlots, k \in WSlots : WeakPtrFromShared(t, i, k)
        \/ \E k, l \in WSlots : WeakPtrCopy(t, k, l)
        \/ \E k, l \in WSlots : WeakPtrMove(t, k, l)
        \/ \E k \in WSlots : WeakPtrDtor(t, k)
        \/ \E k, l \in WSlots : WeakPtrCopyAssign(t, k, l)
        \/ WeakPtrCopyAssignRelease(t)
        \/ \E k, l \in WSlots : WeakPtrMoveAssign(t, k, l)
        \/ \E k, l \in WSlots : WeakPtrSwap(t, k, l)
        \/ \E k \in WSlots, j \in SSlots : WeakPtrLock(t, k, j)
        \/ WeakPtrLockCas(t)
        \/ \E k \in WSlots, j \in SSlots : WeakPtrLockDo(t, k, j)
        \/ WeakPtrLockDoCas(t)
        \/ DestroyObject(t)
        \/ LoadWeak(t)
        \/ LoadStrong(t)
        \/ DestroyBlock(t)

Step(t) ==
        \/ \E i \in SSlots : alloc_shared_impl(t, i)
        \/ \E i \in SSlots, size \in 0..MaxSize :
              alloc_shared_array_impl(t, i, size)
        \/ \E i \in SSlots, isNull \in BOOLEAN : SharedPtrFromRaw(t, i, isNull)
        \/ HandleStep(t)

\* Any number of threads, each running one operation at a time.
Next == \E t \in Threads : Step(t)

\* A single thread: operations run one after another.
NextSeq == Step(1)

Spec == Init /\ [][Next]_vars
SpecSeq == InitSeq /\ [][NextSeq]_vars

\* Any number of threads, every block made by adopting a raw pointer with a
\* deleter: destroy_object of such a block is ControlBlockPtr::destroy_object,
\* the one call of the deleter.
NextAdopted ==
    \E t \in Threads :
        \/ \E i \in SSlots, isNull \in BOOLEAN : SharedPtrFromRaw(t, i, isNull)
        \/ HandleStep(t)

SpecAdopted == Init /\ [][NextAdopted]_vars

\* ---------------------------------------------------------------- observers

\* SharedPtr::strong_count() / WeakPtr::strong_count(): the values a call on
\* handle h may return.
strong_count(h) == IF h.ctl = 0 THEN {0} ELSE Load(strongCount, h.ctl)

\* WeakPtr::expired(): the values a call on handle h may return.
expired(h) == {count = 0 : count \in strong_count(h)}

\* No operation is in progress.
Quiescent == \A t \in Threads : th[t].pc = "idle"

\* Strong slots whose handle owns a unit of strongCount of block b.  The
\* destination of a copy assignment has given its unit up once the
\* assignment's release has begun.
LiveStrong(b) ==
    {i \in SSlots : /\ sp[i].ctl = b
                    /\ ~\E t \in Threads : /\ th[t].op = "copy_assign"
                                           /\ i \in th[t].sW}

\* Weak slots whose handle owns a unit of weakCount of block b.
LiveWeak(b) == {k \in WSlots : wp[k].ctl = b}

\* Threads whose copy assignment holds the old value of its destination in a
\* temporary WeakPtr that is not yet destroyed.
LiveWeakTemp(b) ==
    {t \in Threads : th[t].pc = "wa_release" /\ th[t].ctl = b}

\* The same for the temporary SharedPtr of an array copy assignment.
LiveStrongTemp(b) ==
    {t \in Threads : th[t].pc = "sa_release" /\ th[t].ctl = b}

\* Block b has been created and every handle to it is gone.
Abandoned(b) ==
    /\ blockState[b] # "unallocated"
    /\ Quiescent
    /\ \A i \in SSlots : sp[i].ctl # b
    /\ \A k \in WSlots : wp[k].ctl # b

\* ------------------------------------------------------------------- claims

\* C1: destroy_block runs exactly once per block under every interleaving of
\* the steps of release_shared_ref and release_weak_ref: never twice, and once
\* when every handle of the block has been released.
C1_DestroyBlockExactlyOnce ==
    \A b \in Blocks :
        /\ destroyBlockCalls[b] <= 1
        /\ Abandoned(b) => destroyBlockCalls[b] = 1

\* C2: lock() never returns a non-empty handle to a payload whose
\* destroy_object has started: when a step completes lock() with a non-empty
\* result, the block of the result exists and its payload is live.
C2_LockNeverReturnsDestroyed ==
    [][\A t \in Threads :
          (/\ th[t].pc \in {"lock_cas", "lock_do"}
           /\ th'[t].pc = "idle"
           /\ \E j \in th[t].sW : sp'[j] # sp[j])
          => /\ payload[th[t].ctl] = "live"
             /\ blockState[th[t].ctl] = "valid"]_vars

\* C3: destroy_object runs exactly once per block, and the thread that runs it
\* is the one whose fetch_sub moved strongCount from 1 to 0.
C3_DestroyObjectExactlyOnce ==
    /\ \A b \in Blocks :
          /\ destroyObjectCalls[b] <= 1
          /\ Abandoned(b) => destroyObjectCalls[b] = 1
    /\ \A t \in Threads : th[t].pc = "rel_obj" => th[t].zero

\* C4: destroy_block is the last action on a block: it starts only after
\* destroy_object has completed, and afterwards no thread runs destroy_object
\* on the block or reads or writes its counters.
C4_DestroyBlockLast ==
    /\ \A t \in Threads :
          th[t].pc = "rel_blk" => payload[th[t].ctl] = "destroyed"
    /\ \A b \in Blocks : ~useAfterFree[b]

\* C5: the storage of a block stays valid while any handle that has not been
\* released points at it.
C5_StorageOutlivesHandles ==
    \A b \in Blocks :
        blockState[b] = "freed"
        => /\ LiveStrong(b) = {} /\ LiveStrongTemp(b) = {}
           /\ LiveWeak(b) = {} /\ LiveWeakTemp(b) = {}

\* C6 as stated: while a block exists its payload is live if and only if
\* strongCount > 0.
C6_PayloadLiveIffStrong ==
    \A b \in Blocks :
        Valid(b) => (payload[b] = "live" <=> strongCount[b] > 0)

\* C6: while a block exists, strongCount > 0 implies that its payload is
\* live; a live payload with strongCount = 0 exists only inside a factory,
\* before the first handle has taken its unit, or inside the release that
\* took strongCount to 0, before its destroy_object.
C6_PayloadLiveWhileStrong ==
    \A b \in Blocks :
        Valid(b) =>
            /\ strongCount[b] > 0 => payload[b] = "live"
            /\ payload[b] = "live" /\ strongCount[b] = 0
               => \E t \in Threads : /\ th[t].ctl = b
                                     /\ th[t].pc \in {"make_incr", "rel_obj"}

\* A weak handle keeps a block whose payload is destroyed and whose
\* strongCount is 0.
C6_Witness ==
    \E b \in Blocks :
        /\ Valid(b) /\ payload[b] = "destroyed" /\ strongCount[b] = 0
        /\ LiveWeak(b) # {}

\* C7: when a factory or the adoption of a non-null raw pointer returns, the
\* returned handle is non-empty, strongCount of its block is 1 and weakCount
\* is 0.
C7_FreshHandleCounts ==
    [][\A t \in Threads :
          th[t].pc = "make_incr" /\ th'[t].pc = "idle"
          => \E i \in th[t].sW :
                /\ sp'[i].ptr # 0 /\ sp'[i].ctl = th[t].ctl
                /\ strong_count(sp[i])' = {1}
                /\ weakCount'[th[t].ctl] = 0]_vars

\* Two blocks, each with the counts of a block just returned to its only
\* handle.
C7_Witness ==
    /\ Quiescent
    /\ \E i, j \in SSlots :
          /\ sp[i].ctl # 0 /\ sp[j].ctl # 0 /\ sp[i].ctl # sp[j].ctl
          /\ strongCount[sp[i].ctl] = 1 /\ weakCount[sp[i].ctl] = 0
          /\ strongCount[sp[j].ctl] = 1 /\ weakCount[sp[j].ctl] = 0

\* C8: between the operations of a single thread, strong_count() of every
\* non-empty handle equals the number of non-empty SharedPtr handles that
\* reference its block.
C8_StrongCountIsHandleCount ==
    Quiescent =>
        \A i \in SSlots :
            sp[i].ctl # 0
            => strong_count(sp[i])
                 = {Cardinality({j \in SSlots : sp[j].ctl = sp[i].ctl})}

\* Two handles share one block and both report 2.
C8_Witness ==
    /\ Quiescent
    /\ \E i, j \in SSlots :
          /\ i # j /\ sp[i].ctl # 0 /\ sp[j].ctl = sp[i].ctl
          /\ strong_count(sp[i]) = {2}

\* Effect of a step on the counters of block b.
CountsChange(b, strongDelta, weakDelta) ==
    /\ strongCount'[b] = strongCount[b] + strongDelta
    /\ weakCount'[b] = weakCount[b] + weakDelta

\* C9 as stated: a move from a non-empty handle gives the destination the
\* source's pointers, leaves the source empty and leaves both counters of the
\* block unchanged; a move from an empty handle leaves both handles empty.
C9_MoveTransfers ==
    /\ [](/\ \A i, j \in SSlots :
               /\ MoveAssigned(sp, i, j)[j] = sp[i]
               /\ MoveAssigned(sp, i, j)[i] = NullH
          /\ \A k, l \in WSlots :
               /\ MoveAssigned(wp, k, l)[l] = wp[k]
               /\ MoveAssigned(wp, k, l)[k] = NullH)
    /\ [][\A t \in Threads :
            /\ \A i, j \in SSlots :
                 (SharedPtrMove(t, i, j) \/ SharedPtrMoveAssign(t, i, j))
                 /\ sp[i].ctl # 0
                 => CountsChange(sp[i].ctl, 0, 0)
            /\ \A k, l \in WSlots :
                 (WeakPtrMove(t, k, l) \/ WeakPtrMoveAssign(t, k, l))
                 /\ wp[k].ctl # 0
                 => CountsChange(wp[k].ctl, 0, 0)]_vars

\* C9: a move into another handle gives the destination the source's
\* pointers and leaves the source empty; move construction leaves both
\* counters unchanged; move assignment releases what the destination held, so
\* the counter of the handle's kind drops by one when the destination already
\* referenced the same block; move assignment of a handle to itself changes
\* nothing.
C9_MoveTransfersOrReleases ==
    /\ [](/\ \A i, j \in SSlots :
               IF i = j
               THEN MoveAssigned(sp, i, j) = sp
               ELSE /\ MoveAssigned(sp, i, j)[j] = sp[i]
                    /\ MoveAssigned(sp, i, j)[i] = NullH
          /\ \A k, l \in WSlots :
               IF k = l
               THEN MoveAssigned(wp, k, l) = wp
               ELSE /\ MoveAssigned(wp, k, l)[l] = wp[k]
                    /\ MoveAssigned(wp, k, l)[k] = NullH)
    /\ [][\A t \in Threads :
            /\ \A i, j \in SSlots :
                 /\ SharedPtrMove(t, i, j) /\ sp[i].ctl # 0
                    => /\ sp'[j] = sp[i] /\ sp'[i] = NullH
                       /\ CountsChange(sp[i].ctl, 0, 0)
                 /\ SharedPtrMoveAssign(t, i, j) /\ sp[i].ctl # 0
                    => CountsChange(sp[i].ctl,
                                    IF i # j /\ sp[j].ctl = sp[i].ctl
                                    THEN -1 ELSE 0,
                                    0)
            /\ \A k, l \in WSlots :
                 /\ WeakPtrMove(t, k, l) /\ wp[k].ctl # 0
                    => /\ wp'[l] = wp[k] /\ wp'[k] = NullH
                       /\ CountsChange(wp[k].ctl, 0, 0)
                 /\ WeakPtrMoveAssign(t, k, l) /\ wp[k].ctl # 0
                    => CountsChange(wp[k].ctl,
                                    0,
                                    IF k # l /\ wp[l].ctl = wp[k].ctl
                                    THEN -1 ELSE 0)]_vars

\* A move assignment has emptied its source, handed the block over and is
\* destroying the payload that its destination held.
C9_Witness ==
    \E t \in Threads :
        /\ th[t].pc = "rel_obj" /\ th[t].sW = SSlots
        /\ \E i, j \in SSlots :
              /\ sp[i] = NullH /\ sp[j].ctl # 0
              /\ sp[j].ctl # th[t].ctl
              /\ strongCount[sp[j].ctl] = 1

\* C10: a WeakPtr never delays the destruction of the payload: once the last
\* strong handle has been released the payload is destroyed although weak
\* handles exist, and from then on every such WeakPtr reports expired() and
\* its lock() returns an empty handle.
C10_WeakNeverDelays ==
    \A b \in Blocks :
        /\ blockState[b] # "unallocated" /\ Quiescent /\ LiveStrong(b) = {}
           => payload[b] = "destroyed"
        /\ \A k \in LiveWeak(b) :
              payload[b] = "destroyed"
              => /\ expired(wp[k]) = {TRUE}
                 /\ \A count \in strong_count(wp[k]) : ~LockMayAcquire(count)

\* ------------------------------------------------------------------- C11

\* The step of thread t is a step of the compare-exchange loop of lock().
LockLoopStep(t) ==
    /\ th[t].pc \in {"lock_cas", "lock_do"}
    /\ th'[t] # th[t]

\* C11: lock() returns a non-empty handle exactly when the strongCount value
\* on which its loop finishes is non-zero.  The loop only ever holds a
\* non-zero expected value; a successful compare-exchange finds strongCount
\* equal to it, raises strongCount by exactly 1 and fills the result with the
\* payload and block pointers of the WeakPtr; the loop gives up only on an
\* observed 0, and then the result stays empty and no counter changes; a
\* failed exchange that observed a non-zero value goes round again with that
\* value.  weakCount is unchanged throughout.  (The counter values are those
\* of allocated block storage.)
C11_LockUpgrade ==
    [][\A t \in Threads :
         LockLoopStep(t) =>
           LET b == th[t].ctl IN
           /\ th[t].cnt # 0
           /\ weakCount' = weakCount
           /\ \/ /\ th'[t] = IdleT
                 /\ \E j \in th[t].sW, k \in th[t].wR :
                       /\ sp[j] = NullH
                       /\ sp' = [sp EXCEPT ![j] = [ptr |-> wp[k].ptr,
                                                   ctl |-> wp[k].ctl]]
                       /\ wp[k].ctl = b
                 /\ Valid(b) =>
                       /\ strongCount[b] = th[t].cnt
                       /\ strongCount' =
                            [strongCount EXCEPT ![b] = strongCount[b] + 1]
              \/ /\ th'[t] = IdleT
                 /\ sp' = sp
                 /\ strongCount' = strongCount
                 /\ Valid(b) => strongCount[b] = 0
              \/ /\ th'[t] = [th[t] EXCEPT !.cnt = th'[t].cnt]
                 /\ th'[t].cnt # 0
                 /\ sp' = sp
                 /\ strongCount' = strongCount
                 /\ Valid(b) => strongCount[b] = th'[t].cnt
    ]_vars

\* A lock() is inside its loop holding an expected value that another thread
\* has since made stale, over an allocated block with a live payload: its
\* next compare-exchange fails and reloads.
C11_Witness ==
    \E t \in Threads :
       /\ th[t].pc = "lock_cas"
       /\ Valid(th[t].ctl)
       /\ strongCount[th[t].ctl] # 0
       /\ strongCount[th[t].ctl] # th[t].cnt
       /\ \A j \in th[t].sW : sp[j] = NullH

\* ------------------------------------------------ thread_safety scenario
\* TEST_CASE(thread_safety): the main thread makes `shared`; every worker
\* runs the loop body { local_copy = shared; WeakPtr weak(shared);
\* locked = weak.lock(); } whose end destroys locked, weak and local_copy in
\* that order; after all workers have finished, `shared` goes out of scope.

MainThread == 0
Shared == 1     \* the slot of `shared`

InitWorkers ==
    /\ heap = ConcBlocks
    /\ sp = [i \in SSlots |-> NullH]
    /\ wp = [k \in WSlots |-> NullH]
    /\ blockState = [b \in Blocks |-> "unallocated"]
    /\ strongCount = [b \in Blocks |-> 0]
    /\ weakCount = [b \in Blocks |-> 0]
    /\ payload = [b \in Blocks |-> "none"]
    /\ destroyObjectCalls = [b \in Blocks |-> 0]
    /\ destroyBlockCalls = [b \in Blocks |-> 0]
    /\ useAfterFree = [b \in Blocks |-> FALSE]
    /\ th = [t \in Threads \cup {MainThread} |-> IdleT]
    /\ prog = [t \in Threads |-> WorkerStart]
    /\ fac = NoCall

\* Worker t is at position pc of the loop body and runs no release.
At(t, pc) ==
    /\ prog[t].pc = pc
    /\ th[t].pc = "idle"
    /\ sp[Shared] # NullH

WorkersDone == \A t \in Threads : prog[t].pc = "done" /\ th[t].pc = "idle"

\* auto shared = sp::make_shared<std::atomic_int>(0);
MainMake ==
    /\ \A b \in Blocks : blockState[b] = "unallocated"
    /\ alloc_shared_impl(MainThread, Shared)

\* auto local_copy = shared;
WorkerCopy(t) ==
    /\ At(t, "copy")
    /\ incr_strong_ref(sp[Shared].ctl)
    /\ prog' = [prog EXCEPT ![t].local_copy = sp[Shared], ![t].pc = "weak"]
    /\ UNCHANGED <<sp, wp, th, blockState, weakCount, payload,
                   destroyObjectCalls, destroyBlockCalls, heap>>
    /\ UNCHANGED fac

\* sp::WeakPtr<std::atomic_int> weak(shared);
WorkerWeak(t) ==
    /\ At(t, "weak")
    /\ incr_weak_ref(sp[Shared].ctl)
    /\ prog' = [prog EXCEPT ![t].weak = sp[Shared], ![t].pc = "lock"]
    /\ UNCHANGED <<sp, wp, th, blockState, strongCount, payload,
                   destroyObjectCalls, destroyBlockCalls, heap>>
    /\ UNCHANGED fac

\* weak.lock(): weak_ptr_lock_impl up to the first test of its while loop.
WorkerLock(t) ==
    /\ At(t, "lock")
    /\ \E count \in Load(strongCount, prog[t].weak.ctl) :
          prog' = [prog EXCEPT ![t] =
                     IF LockMayAcquire(count)
                     THEN [@ EXCEPT !.pc = "lock_cas", !.cnt = count]
                     ELSE [@ EXCEPT !.pc = "drop_locked", !.cnt = 0]]
    /\ Touch(prog[t].weak.ctl)
    /\ UNCHANGED <<sp, wp, th, blockState, strongCount, weakCount, payload,
                   destroyObjectCalls, destroyBlockCalls, heap>>
    /\ UNCHANGED fac

\* One iteration of the while loop of weak_ptr_lock_impl, whose
\* compare_exchange_weak fails spuriously or not; `locked` is the handle the
\* loop returns.
WorkerLockIteration(t, spurious) ==
    /\ At(t, "lock_cas")
    /\ \E actual \in Garbage \cup {strongCount[prog[t].weak.ctl]},
          ok \in BOOLEAN :
          /\ CompareExchangeWeak(prog[t].weak.ctl, prog[t].cnt, actual,
                                 spurious, ok)
          /\ prog' = [prog EXCEPT ![t] =
                        IF ok
                        THEN [@ EXCEPT !.pc = "drop_locked", !.cnt = 0,
                                       !.locked = prog[t].weak]
                        ELSE IF LockMayAcquire(actual)
                        THEN [@ EXCEPT !.cnt = actual]
                        ELSE [@ EXCEPT !.pc = "drop_locked", !.cnt = 0]]
    /\ UNCHANGED <<sp, wp, th, blockState, weakCount, payload,
                   destroyObjectCalls, destroyBlockCalls, heap>>
    /\ UNCHANGED fac

\* One iteration of the while loop of weak_ptr_lock_impl.
WorkerLockCas(t) == \E spurious \in BOOLEAN : WorkerLockIteration(t, spurious)

\* ~SharedPtr of `locked` at the end of the if statement.
WorkerDropLocked(t) ==
    /\ At(t, "drop_locked")
    /\ release_shared_ref(t, prog[t].locked.ctl, IdleT)
    /\ prog' = [prog EXCEPT ![t].locked = NullH, ![t].pc = "drop_weak"]
    /\ UNCHANGED <<sp, wp, blockState, weakCount, payload,
                   destroyObjectCalls, destroyBlockCalls, heap>>
    /\ UNCHANGED fac

\* ~WeakPtr of `weak` at the end of the loop body.
WorkerDropWeak(t) ==
    /\ At(t, "drop_weak")
    /\ release_weak_ref(t, prog[t].weak.ctl, IdleT)
    /\ prog' = [prog EXCEPT ![t].weak = NullH, ![t].pc = "drop_copy"]
    /\ UNCHANGED <<sp, wp, blockState, strongCount, payload,
                   destroyObjectCalls, destroyBlockCalls, heap>>
    /\ UNCHANGED fac

\* ~SharedPtr of `local_copy` at the end of the loop body, and the loop test.
WorkerDropCopy(t) ==
    /\ At(t, "drop_copy")
    /\ release_shared_ref(t, prog[t].local_copy.ctl, IdleT)
    /\ prog' = [prog EXCEPT ![t].local_copy = NullH,
                            ![t].iter = @ + 1,
                            ![t].pc = IF prog[t].iter + 1 < MaxIter
                                      THEN "copy" ELSE "done"]
    /\ UNCHANGED <<sp, wp, blockState, weakCount, payload,
                   destroyObjectCalls, destroyBlockCalls, heap>>
    /\ UNCHANGED fac

\* ~SharedPtr of `shared` at the end of the test, after every worker has
\* passed the barrier and has been joined.
MainDrop ==
    /\ WorkersDone
    /\ SharedPtrDtor(MainThread, Shared)

NextWorkers ==
    \/ MainMake
    \/ MainDrop
    \/ \E t \in Threads : WorkerCopy(t)
    \/ \E t \in Threads : WorkerWeak(t)
    \/ \E t \in Threads : WorkerLock(t)
    \/ \E t \in Threads : WorkerLockCas(t)
    \/ \E t \in Threads : WorkerDropLocked(t)
    \/ \E t \in Threads : WorkerDropWeak(t)
    \/ \E t \in Threads : WorkerDropCopy(t)
    \/ \E t \in Threads \cup {MainThread} :
          \/ SharedPtrCtor(t)
          \/ DestroyObject(t)
          \/ LoadWeak(t)
          \/ LoadStrong(t)
          \/ DestroyBlock(t)

SpecWorkers == InitWorkers /\ [][NextWorkers]_vars

\* ------------------------------------------------------------------- C12

\* C12: in the thread_safety scenario, while `shared` is alive neither
\* destroy_object nor destroy_block runs on its block (the payload stays
\* live, the storage allocated, and nothing touches freed storage); every
\* lock() of a worker returns a non-empty handle; and once every worker has
\* finished its iterations strongCount is 1 and weakCount is 0.
C12_WorkersKeepBlock ==
    /\ [](sp[Shared] # NullH =>
            LET b == sp[Shared].ctl IN
            /\ destroyObjectCalls[b] = 0 /\ destroyBlockCalls[b] = 0
            /\ Valid(b) /\ payload[b] = "live" /\ ~useAfterFree[b]
            /\ \A t \in Threads \cup {MainThread} :
                  th[t].pc \notin {"rel_obj", "rel_blk"}
            /\ WorkersDone => strongCount[b] = 1 /\ weakCount[b] = 0)
    /\ [][\A t \in Threads :
            (prog[t].pc \in {"lock", "lock_cas"}
               /\ prog'[t].pc = "drop_locked")
            => prog'[t].locked = sp[Shared]]_vars

\* Every worker has run all its iterations and `shared` is the only handle
\* left.
C12_Witness ==
    /\ WorkersDone
    /\ sp[Shared] # NullH
    /\ strongCount[sp[Shared].ctl] = 1
    /\ \A t \in Threads : prog[t].iter = MaxIter

\* ------------------------------------------------------------------- C13

\* C13: the deleter of an adopted raw pointer is invoked exactly once over
\* the lifetime of its block: at most once, never while a SharedPtr handle of
\* the block is alive, and once the block has no handle and no operation
\* left it has been invoked.
C13_DeleterExactlyOnce ==
    \A b \in Blocks :
        /\ destroyObjectCalls[b] <= 1
        /\ destroyObjectCalls[b] > 0 => LiveStrong(b) = {}
        /\ \A t \in Threads :
              th[t].pc = "rel_obj" /\ th[t].ctl = b => LiveStrong(b) = {}
        /\ Abandoned(b) => destroyObjectCalls[b] = 1

\* ------------------------------------------------------------------- C14

\* Calls of allocate(1) for the storage of block b: one by the factory that
\* made it (alloc_shared_impl, alloc_shared_array_impl, create_ctl_block).
BlockAllocations(b) == IF blockState[b] = "unallocated" THEN 0 ELSE 1

\* Calls of deallocate(this, 1) for the storage of block b: one per
\* destroy_block.
BlockDeallocations(b) == destroyBlockCalls[b]

\* C14: every allocate(n) of the allocator is matched by exactly one
\* deallocate with the same n: the storage of a block is never deallocated
\* more often than it was allocated, and when all handles of the block are
\* gone it has been deallocated as often as it was allocated.
C14_AllocateMatchedByDeallocate ==
    \A b \in Blocks :
        /\ BlockDeallocations(b) <= BlockAllocations(b)
        /\ Abandoned(b) => BlockDeallocations(b) = BlockAllocations(b)

\* ------------------------------------------------ factories, step by step
\* The factories with every allocate, every constructor call and every
\* handler as a step of its own; each allocate and each constructor may
\* throw.  A single thread runs them.

\* A factory call of the given kind that has just been entered.
Call(kind, size, i) ==
    [NoCall EXCEPT !.kind = kind, !.size = size, !.slot = i,
                   !.outcome = "running"]

\* The thread's record inside a factory whose result goes to slot i.
InFactory(label, i) == [IdleT EXCEPT !.pc = label, !.sW = {i}]

\* The call ends with the exception thrown by `step` leaving the factory.
Throw(f, step) == [f EXCEPT !.failedAt = step, !.outcome = "threw"]

\* std::destroy_at on one element.
DestroyAt(e) == IF e = "live" THEN "destroyed" ELSE "bad"

\* A destroy_n that stops one element short.
destroy_n_butLast(elems, n) ==
    [k \in DOMAIN elems |-> IF k < n THEN DestroyAt(elems[k]) ELSE elems[k]]

\* std::destroy_n(ptr, n).
destroy_n(elems, n) ==
    [k \in DOMAIN elems |-> IF k <= n THEN DestroyAt(elems[k]) ELSE elems[k]]

\* A local `constructed` that follows the number of elements built.
constructed_tracking(cur) == cur

\* The local `size_t constructed = 0` of alloc_shared_array_impl when its
\* outer handler runs: nothing ever assigns to it.
constructed(cur) == 0

\* The outer handler of alloc_shared_array_impl:
\* destroy_n(ptr, constructed); deallocate(elementAlloc, ptr, size); throw.
OuterCatch(f, step) ==
    Throw([f EXCEPT !.elems = destroy_n(f.elems, constructed(f.cur)),
                    !.elemDeallocated = f.size],
          step)

\* A size test that never takes the early return.
IsEmptyRequest_never(size) == size < 0

\* `if (size == 0)` of alloc_shared_array_impl.
IsEmptyRequest(size) == size = 0

\* alloc_shared_impl: allocate(blockAlloc, 1).
alloc_shared_impl_allocate(t, i, fails) ==
    /\ Idle(t) /\ NewS(i) /\ HasFreshBlock
    /\ LET f == [Call("direct", 0, i) EXCEPT !.allocCalls = 1] IN
       IF fails
       THEN /\ fac' = Throw(f, "block_alloc")
            /\ th' = th
       ELSE /\ fac' = [f EXCEPT !.blockStore = "allocated"]
            /\ th' = [th EXCEPT ![t] = InFactory("direct_ctor", i)]
    /\ UNCHANGED <<sp, wp, prog>>
    /\ UNCHANGED blockVars

\* alloc_shared_impl: std::construct_at(block, ...), which runs the payload
\* constructor (ControlBlockDirect's placement new).  Nothing catches its
\* exception, so the storage of the block stays allocated.
alloc_shared_impl_construct(t, throws) ==
    /\ th[t].pc = "direct_ctor"
    /\ IF throws
       THEN /\ fac' = Throw(fac, "payload_ctor")
            /\ th' = [th EXCEPT ![t] = IdleT]
            /\ heap' = heap - 1
            /\ UNCHANGED <<blockState, strongCount, weakCount, payload,
                           destroyObjectCalls, destroyBlockCalls,
                           useAfterFree>>
       ELSE /\ NewBlock(FreshBlock)
            /\ th' = [th EXCEPT ![t] =
                        Constructing(FreshBlock, fac.slot, "direct")]
            /\ fac' = [fac EXCEPT !.blockStore = "constructed",
                                  !.outcome = "returned"]
    /\ UNCHANGED <<sp, wp, prog>>

\* alloc_shared_array_impl: the size test and allocate(elementAlloc, size).
alloc_shared_array_impl_allocate(t, i, size, fails) ==
    /\ Idle(t) /\ NewS(i)
    /\ IF IsEmptyRequest(size)
       THEN /\ fac' = [Call("array", size, i) EXCEPT !.outcome = "empty"]
            /\ sp' = [sp EXCEPT ![i] = NullH]
            /\ th' = th
       ELSE /\ HasFreshBlock
            /\ LET f == [Call("array", size, i) EXCEPT !.allocCalls = 1] IN
               IF fails
               THEN /\ fac' = Throw(f, "elem_alloc")
                    /\ th' = th
               ELSE /\ fac' = [f EXCEPT !.elemAllocated = size,
                                        !.elems = [k \in 1..size |-> "raw"]]
                    /\ th' = [th EXCEPT ![t] =
                                InFactory(IF size = 0 THEN "array_block"
                                          ELSE "array_elems", i)]
            /\ sp' = sp
    /\ UNCHANGED <<wp, prog>>
    /\ UNCHANGED blockVars

\* alloc_shared_array_impl: one element of
\* std::uninitialized_default_construct_n(ptr, size).  When the constructor
\* of element cur + 1 throws, the algorithm destroys the cur elements it has
\* built and rethrows into the outer handler.
uninitialized_default_construct_n(t, throws) ==
    /\ th[t].pc = "array_elems"
    /\ IF throws
       THEN /\ fac' = OuterCatch([fac EXCEPT !.elems =
                                    destroy_n(fac.elems, fac.cur)],
                                 "elem_ctor")
            /\ th' = [th EXCEPT ![t] = IdleT]
       ELSE /\ fac' = [fac EXCEPT !.elems[fac.cur + 1] = "live",
                                  !.cur = fac.cur + 1]
            /\ th' = [th EXCEPT ![t].pc = IF fac.cur + 1 = fac.size
                                          THEN "array_block"
                                          ELSE "array_elems"]
    /\ UNCHANGED <<sp, wp, prog>>
    /\ UNCHANGED blockVars

\* alloc_shared_array_impl: blockAlloc.allocate(1).
alloc_shared_array_impl_block_allocate(t, fails) ==
    /\ th[t].pc = "array_block"
    /\ LET f == [fac EXCEPT !.allocCalls = @ + 1] IN
       IF fails
       THEN /\ fac' = OuterCatch(f, "block_alloc")
            /\ th' = [th EXCEPT ![t] = IdleT]
       ELSE /\ fac' = [f EXCEPT !.blockStore = "allocated"]
            /\ th' = [th EXCEPT ![t].pc = "array_ctor"]
    /\ UNCHANGED <<sp, wp, prog>>
    /\ UNCHANGED blockVars

\* alloc_shared_array_impl: std::construct_at(block, ptr, deleter, alloc)
\* with the inner handler blockAlloc.deallocate(block, 1); throw.
alloc_shared_array_impl_block_construct(t, throws) ==
    /\ th[t].pc = "array_ctor"
    /\ IF throws
       THEN /\ fac' = OuterCatch([fac EXCEPT !.blockStore = "deallocated"],
                                 "block_ctor")
            /\ th' = [th EXCEPT ![t] = IdleT]
            /\ UNCHANGED blockVars
       ELSE /\ NewBlock(FreshBlock)
            /\ th' = [th EXCEPT ![t] =
                        Constructing(FreshBlock, fac.slot, "array")]
            /\ fac' = [fac EXCEPT !.blockStore = "constructed",
                                  !.outcome = "returned"]
    /\ UNCHANGED <<sp, wp, prog>>

\* SharedPtr(from_raw_ptr_with_deleter_tag, ptr, d, alloc) up to
\* create_ctl_block's blockAlloc.allocate(1).
create_ctl_block_allocate(t, i, isNull, fails) ==
    /\ Idle(t) /\ NewS(i)
    /\ IF AdoptsNothing(isNull)
       THEN /\ fac' = [Call("ptr", 0, i) EXCEPT !.outcome = "empty"]
            /\ th' = th
       ELSE /\ HasFreshBlock
            /\ LET f == [Call("ptr", 0, i) EXCEPT !.allocCalls = 1] IN
               IF fails
               THEN /\ fac' = Throw(f, "block_alloc")
                    /\ th' = th
               ELSE /\ fac' = [f EXCEPT !.blockStore = "allocated"]
                    /\ th' = [th EXCEPT ![t] = InFactory("raw_ctor", i)]
    /\ UNCHANGED <<sp, wp, prog>>
    /\ UNCHANGED blockVars

\* create_ctl_block: std::construct_at(block, ptr, d, alloc), which moves the
\* deleter into the block.  Nothing catches its exception, so the storage of
\* the block stays allocated.
create_ctl_block_construct(t, throws) ==
    /\ th[t].pc = "raw_ctor"
    /\ IF throws
       THEN /\ fac' = Throw(fac, "block_ctor")
            /\ th' = [th EXCEPT ![t] = IdleT]
            /\ heap' = heap - 1
            /\ UNCHANGED <<blockState, strongCount, weakCount, payload,
                           destroyObjectCalls, destroyBlockCalls,
                           useAfterFree>>
       ELSE /\ NewBlock(FreshBlock)
            /\ th' = [th EXCEPT ![t] =
                        Constructing(FreshBlock, fac.slot, "ptr")]
            /\ fac' = [fac EXCEPT !.blockStore = "constructed",
                                  !.outcome = "returned"]
    /\ UNCHANGED <<sp, wp, prog>>

\* ctl->destroy_object() of release_shared_ref when the deleter (or the
\* destructor) throws: ControlBlockPtr::destroy_object rethrows, and the
\* exception meets the noexcept of release_shared_ref: std::terminate.
DestroyObjectThrows(t) ==
    /\ th[t].pc = "rel_obj"
    /\ destroyObjectCalls' =
           [destroyObjectCalls EXCEPT ![th[t].ctl] = Min(@ + 1, MaxCalls)]
    /\ Touch(th[t].ctl)
    /\ th' = [th EXCEPT ![t].pc = "terminated"]
    /\ UNCHANGED <<sp, wp, blockState, strongCount, weakCount, payload,
                   destroyBlockCalls, heap>>
    /\ UNCHANGED extVars

NextFactory ==
    \/ \E i \in SSlots, fails \in BOOLEAN : alloc_shared_impl_allocate(1, i, fails)
    \/ \E throws \in BOOLEAN : alloc_shared_impl_construct(1, throws)
    \/ \E i \in SSlots, size \in 0..MaxSize, fails \in BOOLEAN :
          alloc_shared_array_impl_allocate(1, i, size, fails)
    \/ \E throws \in BOOLEAN : uninitialized_default_construct_n(1, throws)
    \/ \E fails \in BOOLEAN : alloc_shared_array_impl_block_allocate(1, fails)
    \/ \E throws \in BOOLEAN : alloc_shared_array_impl_block_construct(1, throws)
    \/ \E i \in SSlots, isNull, fails \in BOOLEAN :
          create_ctl_block_allocate(1, i, isNull, fails)
    \/ \E throws \in BOOLEAN : create_ctl_block_construct(1, throws)
    \/ SharedPtrCtor(1)
    \/ \E i, j \in SSlots : SharedPtrCopy(1, i, j)
    \/ \E i \in SSlots : SharedPtrDtor(1, i)
    \/ \E i \in SSlots : SharedPtrReset(1, i)
    \/ \E i \in SSlots, k \in WSlots : WeakPtrFromShared(1, i, k)
    \/ \E k \in WSlots : WeakPtrDtor(1, k)
    \/ DestroyObject(1)
    \/ DestroyObjectThrows(1)
    \/ LoadWeak(1)
    \/ LoadStrong(1)
    \/ DestroyBlock(1)

SpecFactory == Init /\ [][NextFactory]_vars

\* ------------------------------------------------------------------- C15

\* C15: when the payload constructor throws inside make_shared /
\* allocated_shared, the storage of the control block has been deallocated
\* when the exception leaves the factory.
C15_ThrowingConstructorFreesBlock ==
    (fac.kind = "direct" /\ fac.failedAt = "payload_ctor")
    => /\ fac.outcome = "threw"
       /\ fac.blockStore = "deallocated"

\* ------------------------------------------------------------------- C16

\* C16: when destroy_object throws during the release of the last strong
\* handle with weakCount == 0, the release still ends as a release does:
\* the program goes on (the failure reaches the caller), and destroy_block
\* has run exactly once on the block.
C16_ThrowingDeleterStillFrees ==
    /\ \A t \in Threads : th[t].pc # "terminated"
    /\ \A b \in Blocks :
          (/\ destroyObjectCalls[b] >= 1
           /\ weakCount[b] = 0
           /\ \A t \in Threads : th[t].pc \in {"idle", "terminated"})
          => destroyBlockCalls[b] = 1

\* ------------------------------------------------------------------- C17

\* C17: the array factory constructs its elements in index order; when the
\* K-th construction throws (K = cur + 1 <= N), exactly the K - 1 elements
\* built before are destroyed, each once, the element storage is deallocated
\* with the size it was allocated with, no control block storage was
\* allocated, and the step that throws returns no handle and creates no
\* block.
C17_ElementFailureUnwinds ==
    /\ [](fac.kind = "array" =>
            /\ (\E t \in Threads : th[t].pc = "array_elems")
               => \A k \in 1..fac.size :
                     fac.elems[k] = IF k <= fac.cur THEN "live" ELSE "raw"
            /\ fac.failedAt = "elem_ctor"
               => /\ fac.cur < fac.size
                  /\ \A k \in 1..fac.size :
                        fac.elems[k] = IF k <= fac.cur THEN "destroyed"
                                       ELSE "raw"
                  /\ fac.elemAllocated = fac.size
                  /\ fac.elemDeallocated = fac.size
                  /\ fac.blockStore = "none"
                  /\ fac.allocCalls = 1
                  /\ fac.outcome = "threw")
    /\ [][(fac'.failedAt = "elem_ctor" /\ fac' # fac)
            => /\ sp' = sp
               /\ UNCHANGED blockVars
               /\ \A t \in Threads : th'[t] = IdleT]_vars

\* The third of three element constructions has thrown: two elements had
\* been built and were destroyed.
C17_Witness ==
    /\ fac.kind = "array"
    /\ fac.failedAt = "elem_ctor"
    /\ fac.size = 3
    /\ fac.cur = 2
    /\ fac.elems = <<"destroyed", "destroyed", "raw">>

\* ------------------------------------------------------------------- C18

\* C18: when allocating or constructing the control block fails in the
\* array factory after all N elements were built, all N elements have been
\* destroyed exactly once, the element storage has been deallocated and no
\* control block storage stays allocated when the exception leaves.
C18_BlockFailureUnwinds ==
    (fac.kind = "array" /\ fac.failedAt \in {"block_alloc", "block_ctor"})
    => /\ fac.outcome = "threw"
       /\ \A k \in 1..fac.size : fac.elems[k] = "destroyed"
       /\ fac.elemDeallocated = fac.elemAllocated
       /\ fac.blockStore \in {"none", "deallocated"}

\* ------------------------------------------------------------------- C19

\* C19: when adopting a raw pointer throws, no control block storage stays
\* allocated: every allocate of the constructor is matched by a deallocate.
C19_AdoptionAllOrNothing ==
    (fac.kind = "ptr" /\ fac.outcome = "threw")
    => fac.blockStore \in {"none", "deallocated"}

\* ------------------------------------------------------------------- C20

\* C20: an array factory call with size 0 returns the empty handle (null,
\* strong_count() == 0), calls allocate zero times and constructs no element;
\* the call changes no block, no counter and no other handle.
C20_ZeroSizeArray ==
    /\ []((fac.kind = "array" /\ fac.size = 0)
           => /\ fac.outcome = "empty"
              /\ fac.allocCalls = 0
              /\ fac.elemAllocated = 0
              /\ fac.blockStore = "none"
              /\ fac.elems = <<>> /\ fac.cur = 0)
    /\ [][(fac'.kind = "array" /\ fac'.size = 0 /\ fac' # fac)
            => /\ sp'[fac'.slot] = NullH
               /\ strong_count(sp'[fac'.slot]) = {0}
               /\ sp' = sp /\ wp' = wp /\ th' = th
               /\ UNCHANGED blockVars]_vars

\* A size-0 array call has returned while a block made by an earlier call
\* is alive.
C20_Witness ==
    /\ fac.kind = "array" /\ fac.size = 0 /\ fac.outcome = "empty"
    /\ sp[fac.slot] = NullH
    /\ \E b \in Blocks : Valid(b)

\* ------------------------------------------------------------------- C21

\* SharedPtr::get().
get(h) == h.ptr

\* SharedPtr::operator bool().
operator_bool(h) == h.ptr # 0

\* The handle SharedPtr() and SharedPtr(nullptr) construct: the member
\* initialisers m_ptr{nullptr}, m_ctl{nullptr}.
SharedPtrDefault == [ptr |-> 0, ctl |-> 0]

\* C21: a default-constructed SharedPtr, a SharedPtr made from nullptr and a
\* SharedPtr adopting a null raw pointer are empty: operator bool is false,
\* get() is null, strong_count() is 0.  Adopting a null pointer calls
\* allocate zero times and creates no block; resetting (and with it
\* destroying) an empty handle changes no counter, runs neither
\* destroy_object nor destroy_block, and starts no release.
C21_EmptyHandles ==
    /\ [](/\ ~operator_bool(SharedPtrDefault)
           /\ get(SharedPtrDefault) = 0
           /\ strong_count(SharedPtrDefault) = {0}
           /\ \A i \in SSlots :
                 sp[i].ctl = 0
                 => /\ sp[i] = SharedPtrDefault
                    /\ ~operator_bool(sp[i]) /\ get(sp[i]) = 0
                    /\ strong_count(sp[i]) = {0})
    /\ [][\A i \in SSlots :
            /\ (\E fails \in BOOLEAN :
                   create_ctl_block_allocate(1, i, TRUE, fails))
               => /\ sp' = sp /\ sp'[i] = SharedPtrDefault
                  /\ th' = th
                  /\ UNCHANGED blockVars
                  /\ fac'.allocCalls = 0
                  /\ fac'.blockStore = "none"
                  /\ fac'.outcome = "empty"
            /\ (sp[i] = SharedPtrDefault /\ SharedPtrReset(1, i))
               => /\ sp' = sp /\ th' = th
                  /\ UNCHANGED blockVars]_vars

\* A null pointer has been adopted into a slot that is still empty, while a
\* block made by an earlier call is alive.
C21_Witness ==
    /\ fac.kind = "ptr" /\ fac.outcome = "empty"
    /\ sp[fac.slot] = SharedPtrDefault
    /\ \E b \in Blocks : Valid(b)

\* ------------------------------------------------------------------- C22

\* C22: constructing a WeakPtr from a non-empty SharedPtr records both
\* pointers, raises weakCount of the block by exactly 1 and leaves
\* strongCount unchanged; from an empty SharedPtr it yields an empty WeakPtr
\* and changes no counter.  An empty WeakPtr reports expired() == true and
\* strong_count() == 0, and lock() on it returns the empty handle.  After a
\* WeakPtr copy, the copy reports the same strong_count() as the original.
C22_WeakFromShared ==
    /\ [](\A k \in WSlots :
            wp[k].ctl = 0 => /\ wp[k] = NullH
                             /\ expired(wp[k]) = {TRUE}
                             /\ strong_count(wp[k]) = {0})
    /\ [][/\ \A i \in SSlots, k \in WSlots :
               WeakPtrFromShared(1, i, k)
               => /\ wp' = [wp EXCEPT ![k] = sp[i]]
                  /\ strongCount' = strongCount
                  /\ weakCount' =
                       IF sp[i].ctl = 0 THEN weakCount
                       ELSE [weakCount EXCEPT ![sp[i].ctl] = @ + 1]
          /\ \A k \in WSlots, j \in SSlots :
               (wp[k].ctl = 0 /\ WeakPtrLock(1, k, j))
               => /\ sp' = sp /\ sp'[j] = NullH
                  /\ strongCount' = strongCount /\ weakCount' = weakCount
          /\ \A k, l \in WSlots :
               WeakPtrCopy(1, k, l)
               => /\ wp'[l] = wp[k] /\ wp'[k] = wp[k]
                  /\ strong_count(wp[l])' = strong_count(wp[k])']_vars

\* Two WeakPtr handles of one block with a live payload: one made from the
\* SharedPtr, one copied from the first.
C22_Witness ==
    \E b \in Blocks :
       /\ Valid(b) /\ strongCount[b] = 1 /\ weakCount[b] = 2
       /\ \A k \in WSlots : wp[k].ctl = b
       /\ Quiescent

\* ------------------------------------------------------------------- C23
\* Array blocks.  SharedPtr<T[]> befriends WeakPtr<element_type>, not
\* WeakPtr<T[]>, so WeakPtr<T[]>(const SharedPtr<T[]>&) cannot read the
\* private members it copies and no WeakPtr of an array block can be made:
\* an array block has strong handles only.

\* destroy_object of an array block: ControlBlockPtr::destroy_object calls
\* ArrayDeleter::operator(), which is destroy_n(ptr, size) and
\* deallocate(alloc, ptr, size).
ArrayDeleter(t) ==
    /\ th[t].pc = "rel_obj"
    /\ LET b == th[t].ctl IN
       /\ destroyObjectCalls' =
              [destroyObjectCalls EXCEPT ![b] = Min(@ + 1, MaxCalls)]
       /\ payload' = [payload EXCEPT ![b] = "destroyed"]
       /\ Touch(b)
    /\ fac' = [fac EXCEPT !.elems = destroy_n(fac.elems, fac.size),
                          !.elemDeallocated = fac.size]
    /\ th' = [th EXCEPT ![t].pc = "rel_load"]
    /\ UNCHANGED <<sp, wp, blockState, strongCount, weakCount,
                   destroyBlockCalls, heap, prog>>

\* The types a caller may name in deleter<D>(), as std::type_info values:
\* the two template arguments of the array's control block and two others.
TypeIds == {"ArrayDeleter", "Alloc", "default_delete", "int"}

\* `using Deleter = ArrayDeleter<T, ElementAlloc>` and the Alloc argument of
\* `using Block = ControlBlockPtr<T[], Deleter, Alloc>`.
StoredDeleter == "ArrayDeleter"
StoredAlloc == "Alloc"

\* A deleter() that knows the deleter only.
ControlBlockPtr_deleter_noAlloc(type) ==
    IF type = StoredDeleter THEN "m_deleter" ELSE "nullptr"

\* ControlBlockPtr<T[], Deleter, Alloc>::deleter(const std::type_info&).
ControlBlockPtr_deleter(type) ==
    IF type = StoredDeleter THEN "m_deleter"
    ELSE IF type = StoredAlloc THEN "m_alloc"
    ELSE "nullptr"

\* SharedPtr<T[]>::deleter<Deleter>() on handle h.
deleter(h, type) ==
    IF h.ctl # 0 THEN ControlBlockPtr_deleter(type) ELSE "nullptr"

\* A call of SharedPtr<T[]>::deleter<Deleter>() on slot i: const, noexcept,
\* and ControlBlockPtr::deleter compares type_info values only.
SharedPtrDeleter(t, i, type) ==
    /\ Idle(t) /\ SFreeR(i)
    /\ deleter(sp[i], type) \in {"m_deleter", "m_alloc", "nullptr"}
    /\ UNCHANGED vars

\* Any number of threads on the handles of one array made by
\* make_shared_array / allocate_shared_array with n > 0 elements; the factory
\* is called again only while no call has returned an array.
NextArray ==
    \/ \E i \in SSlots, size \in 1..MaxSize, fails \in BOOLEAN :
          /\ \A b \in Blocks : blockState[b] = "unallocated"
          /\ alloc_shared_array_impl_allocate(1, i, size, fails)
    \/ \E throws \in BOOLEAN : uninitialized_default_construct_n(1, throws)
    \/ \E fails \in BOOLEAN : alloc_shared_array_impl_block_allocate(1, fails)
    \/ \E throws \in BOOLEAN : alloc_shared_array_impl_block_construct(1, throws)
    \/ \E t \in Threads :
          \/ SharedPtrCtor(t)
          \/ \E i, j \in SSlots : SharedPtrCopy(t, i, j)
          \/ \E i, j \in SSlots : SharedPtrMove(t, i, j)
          \/ \E i \in SSlots : SharedPtrDtor(t, i)
          \/ \E i \in SSlots : SharedPtrReset(t, i)
          \/ \E i, j \in SSlots : SharedPtrMoveAssign(t, i, j)
          \/ \E i, j \in SSlots : SharedPtrArrayCopyAssign(t, i, j)
          \/ SharedPtrArrayCopyAssignRelease(t)
          \/ \E i, j \in SSlots : SharedPtrSwap(t, i, j)
          \/ \E i \in SSlots, type \in TypeIds : SharedPtrDeleter(t, i, type)
          \/ ArrayDeleter(t)
          \/ LoadWeak(t)
          \/ DestroyBlock(t)

SpecArray == Init /\ [][NextArray]_vars

\* Every element of the array of the latest factory call is in state e.
AllElems(e) == \A k \in 1..fac.size : fac.elems[k] = e

\* C23: an array of n > 0 elements made by make_shared_array /
\* allocate_shared_array has exactly n constructed elements when the factory
\* returns; no element is destroyed while a strong handle of the block is
\* alive; the release of the last strong handle destroys each of the n
\* elements exactly once and deallocates the element storage with count n,
\* in one call of the deleter.
C23_ArrayElements ==
    \A b \in Blocks :
        blockState[b] # "unallocated"
        => /\ fac.kind = "array" /\ fac.outcome = "returned"
           /\ fac.size > 0 /\ fac.cur = fac.size
           /\ fac.elemAllocated = fac.size
           /\ destroyObjectCalls[b] <= 1
           /\ destroyObjectCalls[b] = 0
              => AllElems("live") /\ fac.elemDeallocated = 0
           /\ destroyObjectCalls[b] = 1
              => AllElems("destroyed") /\ fac.elemDeallocated = fac.size
           /\ (LiveStrong(b) # {} \/ LiveStrongTemp(b) # {}
                  \/ \E t \in Threads : th[t].pc = "make_incr")
              => destroyObjectCalls[b] = 0
           /\ Abandoned(b) => destroyObjectCalls[b] = 1

\* An array of more than one element whose handles are all gone.
C23_Witness ==
    \E b \in Blocks :
       /\ Abandoned(b) /\ fac.kind = "array" /\ fac.size > 1
       /\ AllElems("destroyed") /\ fac.elemDeallocated = fac.size
       /\ destroyBlockCalls[b] = 1

\* ------------------------------------------------------------------- C24

Constructors ==
    {"default", "nullptr", "tag_raw", "tag_raw_deleter",
     "tag_raw_deleter_alloc", "copy", "move", "ptr_ctl"}

\* Constructor c of SharedPtr<T> can be called with one argument of the
\* given type.  The raw-pointer constructors take a tag first and the private
\* one takes two pointers; the copy and move constructors take a
\* SharedPtr<T>, and SharedPtr<U> has no conversion to it.
Accepts(c, arg) ==
    CASE c = "nullptr" -> arg = "nullptr_t"
      [] c = "copy"    -> arg = "SharedPtr<T>"
      [] c = "move"    -> arg = "SharedPtr<T>"
      [] OTHER         -> FALSE

\* The overloads viable for SharedPtr<T>(arg).
Viable(arg) == {c \in Constructors : Accepts(c, arg)}

\* `SharedPtr<Base> base = derived;` for a SharedPtr<Derived> h: the handle
\* the initialisation makes, when it is well-formed.
ConvertedFrom(h) ==
    IF Viable("SharedPtr<U>") = {}
    THEN [wellFormed |-> FALSE, handle |-> NullH]
    ELSE [wellFormed |-> TRUE, handle |-> h]

\* C25 as stated: a non-empty SharedPtr<Derived> converts into a
\* SharedPtr<Base> that keeps the original block pointer, so that the block
\* is shared and no second block exists.
C25_UpcastSharesBlock ==
    \A i \in SSlots :
        sp[i].ctl # 0
        => /\ ConvertedFrom(sp[i]).wellFormed
           /\ ConvertedFrom(sp[i]).handle.ctl = sp[i].ctl

\* ------------------------------------------------------------------- C26

\* operator=(SharedPtr&& other) statement by statement on the handles h, with
\* *this in slot j and other in slot i: the temporary is move-constructed
\* from other, swap exchanges it with *this, and the temporary's destructor
\* releases what it then holds.
MoveAssignBySwap(h, i, j) ==
    LET temp   == h[i]
        moved  == [h EXCEPT ![i] = NullH]
        result == [moved EXCEPT ![j] = temp]
    IN  [handles |-> result, released |-> moved[j]]

\* C26: move-assigning a non-empty SharedPtr to itself leaves it non-empty
\* with the same payload pointer and block, leaves strongCount unchanged and
\* runs neither destroy_object nor destroy_block.
C26_SelfMoveAssign ==
    /\ [](\A i \in SSlots :
            sp[i].ctl # 0
            => /\ MoveAssignBySwap(sp, i, i).handles = sp
               /\ MoveAssignBySwap(sp, i, i).released = NullH
               /\ MoveAssigned(sp, i, i)[i] = sp[i]
               /\ operator_bool(MoveAssigned(sp, i, i)[i])
                    = operator_bool(sp[i]))
    /\ [][\A i \in SSlots :
            (sp[i].ctl # 0 /\ SharedPtrMoveAssign(1, i, i))
            => /\ sp' = sp /\ th' = th
               /\ UNCHANGED blockVars]_vars

\* The only handle of a live payload, free to be assigned to itself.
C26_Witness ==
    \E i \in SSlots :
       /\ Idle(1) /\ SFreeW(i)
       /\ sp[i].ctl # 0 /\ operator_bool(sp[i])
       /\ Valid(sp[i].ctl) /\ strongCount[sp[i].ctl] = 1
       /\ payload[sp[i].ctl] = "live"

\* ------------------------------------------------------------------- C27

\* C27: teardown in a single-threaded run has two phases.  The release of
\* the last strong handle runs destroy_object; it goes on to destroy_block in
\* the same release exactly when weakCount is 0, and otherwise leaves the
\* block to the release of the last weak handle, which runs destroy_block
\* once strongCount is 0.  destroy_block never runs before destroy_object.
C27_TwoPhaseTeardown ==
    /\ [](\A b \in Blocks :
            blockState[b] # "unallocated"
            => /\ destroyBlockCalls[b] > 0
                  => /\ destroyObjectCalls[b] = 1 /\ destroyBlockCalls[b] = 1
                     /\ LiveStrong(b) = {} /\ LiveWeak(b) = {}
               /\ (Quiescent /\ LiveStrong(b) = {} /\ LiveWeak(b) # {})
                  => /\ destroyObjectCalls[b] = 1 /\ destroyBlockCalls[b] = 0
                     /\ Valid(b) /\ payload[b] = "destroyed"
               /\ Abandoned(b)
                  => destroyObjectCalls[b] = 1 /\ destroyBlockCalls[b] = 1)
    /\ [][/\ LoadWeak(1)
             => /\ payload[th[1].ctl] = "destroyed"
                /\ destroyObjectCalls[th[1].ctl] = 1
                /\ IF weakCount[th[1].ctl] > 0
                   THEN th'[1].pc # "rel_blk" /\ LiveWeak(th[1].ctl) # {}
                   ELSE th'[1].pc = "rel_blk" /\ LiveWeak(th[1].ctl) = {}
          /\ LoadStrong(1)
             => /\ weakCount[th[1].ctl] = 0
                /\ IF strongCount[th[1].ctl] = 0
                   THEN th'[1].pc = "rel_blk"
                   ELSE th'[1].pc # "rel_blk"
          /\ DestroyBlock(1)
             => /\ payload[th[1].ctl] = "destroyed"
                /\ strongCount[th[1].ctl] = 0 /\ weakCount[th[1].ctl] = 0
                /\ destroyBlockCalls[th[1].ctl] = 0]_vars

\* The second phase: the release of the last weak handle is about to free a
\* block whose payload an earlier release of the last strong handle destroyed.
C27_Witness ==
    /\ th[1].pc = "rel_blk" /\ th[1].wW # {}
    /\ Valid(th[1].ctl) /\ payload[th[1].ctl] = "destroyed"
    /\ destroyObjectCalls[th[1].ctl] = 1 /\ destroyBlockCalls[th[1].ctl] = 0

\* ------------------------------------------------------------------- C28

\* strongCount of block b has come down to 0: the block has been made, its
\* first handle has been constructed, and the counter reads 0.
ReachedZero(b) ==
    /\ ~\E t \in Threads : th[t].pc = "make_incr" /\ th[t].ctl = b
    /\ Valid(b) /\ strongCount[b] = 0

\* C28: once strongCount of a block has reached 0 it stays 0 for as long as
\* the block exists: no step raises it again, no step gives a handle a block
\* whose payload is destroyed, and a WeakPtr that reports expired() keeps
\* reporting it.
C28_ZeroStaysZero ==
    [][/\ \A b \in Blocks :
            (ReachedZero(b) /\ Valid(b)') => strongCount'[b] = 0
       /\ \A k \in WSlots :
            (wp[k].ctl # 0 /\ wp'[k] = wp[k] /\ expired(wp[k]) = {TRUE})
            => expired(wp[k])' = {TRUE}
       /\ \A j \in SSlots :
            (sp'[j] # sp[j] /\ sp'[j].ctl # 0)
            => payload'[sp'[j].ctl] = "live"]_vars

\* ------------------------------------------------------------------- C29

\* The next step of a thread that is inside a factory's handle construction
\* or inside release_shared_ref / release_weak_ref.
Continue(t) ==
    \/ SharedPtrCtor(t)
    \/ DestroyObject(t)
    \/ LoadWeak(t)
    \/ LoadStrong(t)
    \/ DestroyBlock(t)

\* Threads that make, copy and destroy the strong and weak handles of a
\* block; every interleaving of the steps of their releases.
NextRelease ==
    \E t \in Threads :
        \/ \E i \in SSlots : alloc_shared_impl(t, i)
        \/ \E i, j \in SSlots : SharedPtrCopy(t, i, j)
        \/ \E i \in SSlots, k \in WSlots : WeakPtrFromShared(t, i, k)
        \/ \E k, l \in WSlots : WeakPtrCopy(t, k, l)
        \/ \E i \in SSlots : SharedPtrDtor(t, i)
        \/ \E k \in WSlots : WeakPtrDtor(t, k)
        \/ Continue(t)

\* A thread that is inside an operation is scheduled again: the operations
\* are straight-line code without blocking.
SpecRelease ==
    /\ Init /\ [][NextRelease]_vars
    /\ \A t \in Threads : WF_vars(Continue(t))

\* Every handle of block b has been destroyed or has begun its release.
Released(b) ==
    /\ blockState[b] # "unallocated"
    /\ ~\E t \in Threads : th[t].pc = "make_incr" /\ th[t].ctl = b
    /\ \A i \in SSlots : sp[i].ctl # b
    /\ \A k \in WSlots : wp[k].ctl # b

\* Every handle of block b has completed its release.
Completed(b) == Released(b) /\ \A t \in Threads : th[t].ctl # b

\* destroy_object and destroy_block have each run at least once on block b.
TornDown(b) == destroyObjectCalls[b] >= 1 /\ destroyBlockCalls[b] >= 1

\* C29: no leak.  Under every interleaving of the releases, when every
\* strong and weak handle of a block has completed its release,
\* destroy_object and destroy_block have each run at least once; and once
\* every handle has begun its release, that state is eventually reached.
C29_NoLeak ==
    /\ [](\A b \in Blocks : Completed(b) => TornDown(b))
    /\ \A b \in Blocks : Released(b) ~> (Completed(b) /\ TornDown(b))

\* The last strong release and the last weak release of one block run
\* together: each has decremented its counter and is about to load the other.
C29_Witness ==
    \E b \in Blocks :
       /\ Released(b) /\ Valid(b)
       /\ \E t, u \in Threads :
             /\ th[t].pc = "rel_load" /\ th[t].ctl = b
             /\ th[u].pc = "rw_load" /\ th[u].ctl = b

\* ------------------------------------------------------------------- C30

\* The thread_safety scenario with a scheduler under which a worker inside
\* the loop of lock() goes on running and its compare_exchange_weak does not
\* fail spuriously for ever.  The other workers update strongCount finitely
\* often: each runs MaxIter iterations.
SpecWorkersFair ==
    /\ SpecWorkers
    /\ \A t \in Threads : WF_vars(WorkerLockIteration(t, FALSE))

\* C30: lock() terminates: a worker inside the compare-exchange loop leaves
\* it.  An iteration whose exchange does not fail spuriously and finds
\* strongCount as the loop last read it ends the loop with the upgraded
\* handle, so that without concurrent modification and without spurious
\* failure lock() performs one compare-exchange.
C30_LockTerminates ==
    /\ \A t \in Threads :
          (prog[t].pc = "lock_cas") ~> (prog[t].pc = "drop_locked")
    /\ [][\A t \in Threads :
            (WorkerLockIteration(t, FALSE)
               /\ strongCount[prog[t].weak.ctl] = prog[t].cnt)
            => /\ prog'[t].pc = "drop_locked"
               /\ prog'[t].locked = prog[t].weak
               /\ strongCount'[prog[t].weak.ctl] = prog[t].cnt + 1]_vars

\* Two workers are inside the loop of lock() with the same expected value:
\* the exchange of one will make the other's fail and go round again.
C30_Witness ==
    \E t, u \in Threads :
       /\ t # u
       /\ prog[t].pc = "lock_cas" /\ prog[u].pc = "lock_cas"
       /\ prog[t].cnt = prog[u].cnt
       /\ strongCount[prog[t].weak.ctl] = prog[t].cnt

\* ------------------------------------------------------------------- C31

\* The step of thread t is the fetch_sub of a release_weak_ref on block b:
\* by ~WeakPtr, or by the temporary of a copy or move assignment that holds
\* what the assigned-to WeakPtr referenced.
WeakReleaseOf(t, b) ==
    \/ \E k \in WSlots : wp[k].ctl = b /\ WeakPtrDtor(t, k)
    \/ th[t].ctl = b /\ WeakPtrCopyAssignRelease(t)
    \/ \E k, l \in WSlots : k # l /\ wp[l].ctl = b /\ WeakPtrMoveAssign(t, k, l)

\* C31: releasing a WeakPtr while strongCount > 0 lowers weakCount of its
\* block by 1 and changes nothing else: strongCount is unchanged and neither
\* destroy_object nor destroy_block runs, also when weakCount has dropped to
\* 0 and the release goes on to load strongCount.
C31_WeakReleaseFrame ==
    [][\A t \in Threads, b \in Blocks :
         /\ (WeakReleaseOf(t, b) /\ Valid(b) /\ strongCount[b] > 0)
            => /\ weakCount' = [weakCount EXCEPT ![b] = @ - 1]
               /\ strongCount' = strongCount
               /\ payload' = payload /\ blockState' = blockState
               /\ destroyObjectCalls' = destroyObjectCalls
               /\ destroyBlockCalls' = destroyBlockCalls
               /\ th'[t].pc = IF weakCount[b] = 1 THEN "rw_load" ELSE "idle"
         /\ (LoadStrong(t) /\ th[t].ctl = b /\ Valid(b) /\ strongCount[b] > 0)
            => /\ th'[t].pc = "idle"
               /\ UNCHANGED blockVars]_vars

\* The release of the last WeakPtr of a block has brought weakCount to 0 and
\* is about to load strongCount, which is positive.
C31_Witness ==
    \E t \in Threads :
       /\ th[t].pc = "rw_load"
       /\ Valid(th[t].ctl) /\ payload[th[t].ctl] = "live"
       /\ strongCount[th[t].ctl] > 0 /\ weakCount[th[t].ctl] = 0

\* ------------------------------------------------------------------- C32

\* strongCount after incr_strong_ref(ctl) on counters c.
Acquired(c, ctl) == IF ctl = 0 THEN c ELSE [c EXCEPT ![ctl] = FetchAdd(@)]

\* strongCount after the fetch_sub of release_shared_ref(ctl) on counters c.
Released_strong(c, ctl) == IF ctl = 0 THEN c ELSE [c EXCEPT ![ctl] = FetchSub(@)]

\* release_shared_ref(ctl) on counters c goes on to destroy_object.
TearsDown(c, ctl) == ctl # 0 /\ LastStrong(c[ctl])

\* A scalar copy assignment without the `this != &other` test.
CopyAssignScalar_noSelfCheck(h, c, i, j) ==
    LET mid == Released_strong(c, h[j].ctl) IN
    [sp |-> [h EXCEPT ![j] = h[i]],
     strongCount |-> Acquired(mid, h[i].ctl),
     torn |-> TearsDown(c, h[j].ctl), mid |-> mid]

\* SharedPtr<T>::operator=(const SharedPtr&) run to its end on handles h and
\* counters c, slot j = slot i: release, then copy the pointers, then
\* acquire, all skipped when this == &other.  mid: the counters between the
\* two updates; torn: the release was the last of its block.
CopyAssignScalar(h, c, i, j) ==
    IF i = j
    THEN [sp |-> h, strongCount |-> c, torn |-> FALSE, mid |-> c]
    ELSE LET mid == Released_strong(c, h[j].ctl) IN
         [sp |-> [h EXCEPT ![j] = h[i]],
          strongCount |-> Acquired(mid, h[i].ctl),
          torn |-> TearsDown(c, h[j].ctl), mid |-> mid]

\* SharedPtr<T[]>::operator=(const SharedPtr&) run to its end: the temporary
\* SharedPtr(other) acquires, swap gives it what *this held, its destructor
\* releases that.
CopyAssignArray(h, c, i, j) ==
    LET mid == Acquired(c, h[i].ctl) IN
    [sp |-> [h EXCEPT ![j] = h[i]],
     strongCount |-> Released_strong(mid, h[j].ctl),
     torn |-> TearsDown(mid, h[j].ctl), mid |-> mid]

\* C32: copy assignment a = b (slot j = slot i).  Afterwards a has b's
\* pointers; the strongCount of b's block is one higher if a referenced
\* another block or none, and unchanged, without passing through 0, if a
\* referenced the same block; the block a referenced loses one unit and is
\* torn down iff that was its last; a = a changes nothing; and the scalar
\* and the array implementation end with the same handles and counters.
\* The steps of both implementations are the steps of the two operators.
C32_CopyAssign ==
    /\ [](Quiescent =>
          \A i, j \in SSlots :
             LET s == CopyAssignScalar(sp, strongCount, i, j)
                 a == CopyAssignArray(sp, strongCount, i, j)
                 new == sp[i].ctl
                 old == sp[j].ctl
             IN  /\ s.sp = a.sp /\ s.strongCount = a.strongCount
                 /\ s.torn = a.torn
                 /\ s.sp[j] = sp[i]
                 /\ \A x \in SSlots \ {j} : s.sp[x] = sp[x]
                 /\ i = j => s.sp = sp /\ s.strongCount = strongCount /\ ~s.torn
                 /\ (i # j /\ new # 0 /\ new # old)
                    => s.strongCount[new] = strongCount[new] + 1
                 /\ (i # j /\ new # 0 /\ new = old)
                    => /\ s.strongCount[new] = strongCount[new]
                       /\ s.mid[new] > 0 /\ a.mid[new] > 0
                       /\ ~s.torn
                 /\ (i # j /\ old # 0 /\ new # old)
                    => /\ s.strongCount[old] = strongCount[old] - 1
                       /\ s.torn <=> strongCount[old] = 1
                 /\ \A b \in Blocks \ {new, old} :
                       s.strongCount[b] = strongCount[b])
    /\ [][\A t \in Threads :
          /\ \A i, j \in SSlots :
                /\ SharedPtrCopyAssign(t, i, j)
                   => LET s == CopyAssignScalar(sp, strongCount, i, j) IN
                      /\ sp' = sp /\ strongCount' = s.mid
                      /\ th'[t].pc = IF i = j THEN "idle"
                                     ELSE IF s.torn THEN "rel_obj"
                                     ELSE "ca_acquire"
                /\ (th[t].src = i /\ j \in th[t].sW
                      /\ SharedPtrCopyAssignAcquire(t))
                   => /\ sp' = [sp EXCEPT ![j] = sp[i]]
                      /\ strongCount' = Acquired(strongCount, sp[i].ctl)
                      /\ th'[t].pc = "idle"
                /\ SharedPtrArrayCopyAssign(t, i, j)
                   => LET a == CopyAssignArray(sp, strongCount, i, j) IN
                      /\ sp' = a.sp /\ strongCount' = a.mid
                      /\ th'[t].pc = "sa_release" /\ th'[t].ctl = sp[j].ctl
          /\ SharedPtrArrayCopyAssignRelease(t)
             => /\ sp' = sp
                /\ strongCount' = Released_strong(strongCount, th[t].ctl)
                /\ th'[t].pc = IF th[t].ctl = 0 THEN "idle"
                               ELSE IF TearsDown(strongCount, th[t].ctl)
                               THEN "rel_obj" ELSE "idle"
          /\ (th[t].op = "copy_assign" /\ th[t].pc # "ca_acquire")
             => /\ sp' = sp /\ strongCount' = strongCount
                /\ th'[t].op = "copy_assign"]_vars

\* A scalar copy assignment between two handles of one block has released
\* and is about to acquire: strongCount went from 2 to 1, not to 0.
C32_Witness ==
    \E t \in Threads, j \in SSlots :
       /\ th[t].pc = "ca_acquire" /\ j \in th[t].sW /\ th[t].src # j
       /\ sp[th[t].src].ctl = sp[j].ctl /\ sp[j].ctl # 0
       /\ Valid(sp[j].ctl) /\ strongCount[sp[j].ctl] = 1

\* ------------------------------------------------------------------- C33

\* C33: at every quiescent point, for every block that exists or that a handle
\* references, weakCount is the number of WeakPtr handles referencing it and
\* strongCount the number of SharedPtr handles referencing it (so neither is
\* negative).
C33_CountsAreHandleCounts ==
    Quiescent =>
        \A b \in Blocks :
            (Valid(b) \/ LiveStrong(b) # {} \/ LiveWeak(b) # {})
            => /\ Load(strongCount, b) = {Cardinality(LiveStrong(b))}
               /\ Load(weakCount, b) = {Cardinality(LiveWeak(b))}

\* ------------------------------------------------------------------- C34

\* The block handle h references has not been torn down: its storage exists.
NotTornDown(h) == h.ctl # 0 => Valid(h.ctl)

\* C34: in every reachable state the payload pointer of every SharedPtr and
\* WeakPtr is null iff its control-block pointer is null; and for a SharedPtr
\* that no running operation is writing and whose block has not been torn
\* down, operator bool is true exactly when strong_count() > 0.
C34_PointersPaired ==
    /\ \A i \in SSlots : sp[i].ptr = 0 <=> sp[i].ctl = 0
    /\ \A k \in WSlots : wp[k].ptr = 0 <=> wp[k].ctl = 0
    /\ \A i \in SSlots :
          (SFreeR(i) /\ NotTornDown(sp[i]))
          => \A count \in strong_count(sp[i]) :
                operator_bool(sp[i]) <=> count > 0

\* A non-empty SharedPtr and a non-empty WeakPtr of one existing block, and an
\* empty SharedPtr beside them, while an operation runs.
C34_Witness ==
    /\ ~Quiescent
    /\ \E i, j \in SSlots, k \in WSlots :
          /\ SFreeR(i) /\ sp[i].ctl # 0 /\ Valid(sp[i].ctl)
          /\ operator_bool(sp[i]) /\ strong_count(sp[i]) = {1}
          /\ wp[k].ctl = sp[i].ctl /\ wp[k].ptr # 0
          /\ SFreeR(j) /\ sp[j].ctl = 0 /\ ~operator_bool(sp[j])

\* ------------------------------------------------------------------- C35

\* A swap that only copies the second handle into the first.
swap_copiesOneWay(h, i, j) == [h EXCEPT ![i] = h[j]]

\* swap(other) on the handles in slots i and j of h: std::swap(m_ptr,
\* other.m_ptr), then std::swap(m_ctl, other.m_ctl).
swap(h, i, j) ==
    LET p == [h EXCEPT ![i].ptr = h[j].ptr, ![j].ptr = h[i].ptr]
    IN  [p EXCEPT ![i].ctl = p[j].ctl, ![j].ctl = p[i].ctl]

\* C35: swap() on two SharedPtr or two WeakPtr handles exchanges their
\* payload and block pointers, leaves every other handle, every strongCount
\* and weakCount alone and runs no teardown; swapping twice restores both
\* handles and swapping a handle with itself changes nothing.
C35_Swap ==
    /\ [](/\ \A i, j \in SSlots :
               /\ swap(sp, i, j)[i] = sp[j] /\ swap(sp, i, j)[j] = sp[i]
               /\ \A x \in SSlots \ {i, j} : swap(sp, i, j)[x] = sp[x]
               /\ swap(swap(sp, i, j), i, j) = sp
               /\ swap(sp, i, i) = sp
          /\ \A k, l \in WSlots :
               /\ swap(wp, k, l)[k] = wp[l] /\ swap(wp, k, l)[l] = wp[k]
               /\ \A x \in WSlots \ {k, l} : swap(wp, k, l)[x] = wp[x]
               /\ swap(swap(wp, k, l), k, l) = wp
               /\ swap(wp, k, k) = wp)
    /\ [][\A t \in Threads :
            /\ \A i, j \in SSlots :
                 SharedPtrSwap(t, i, j)
                 => /\ sp' = swap(sp, i, j)
                    /\ UNCHANGED <<wp, th>> /\ UNCHANGED blockVars
            /\ \A k, l \in WSlots :
                 WeakPtrSwap(t, k, l)
                 => /\ wp' = swap(wp, k, l)
                    /\ UNCHANGED <<sp, th>> /\ UNCHANGED blockVars]_vars

\* Two SharedPtr handles of two blocks have been swapped: each slot holds the
\* block made for the other, both counts are still 1 and nothing was torn
\* down.
C35_Witness ==
    /\ Quiescent
    /\ sp[1].ctl = 2 /\ sp[2].ctl = 1
    /\ \A b \in {1, 2} : /\ Valid(b) /\ strongCount[b] = 1
                          /\ payload[b] = "live"
                          /\ destroyObjectCalls[b] = 0

\* ------------------------------------------------------------------- C36
\* The two lock() loops as functions of the value `count` holds, the value
\* strongCount holds when compare_exchange_weak runs, and whether that call
\* fails spuriously.  A result says whether lock() has returned (done),
\* whether its result is non-empty (locked), the value of count and the value
\* of strongCount afterwards.

\* The do-while loop without its `if (count == 0) break`.
DoWhileIteration_noBreak(count, actual, spurious) ==
    LET ok == actual = count /\ ~spurious
        c  == IF ok THEN count ELSE actual
    IN  IF ok
        THEN [done |-> TRUE, locked |-> c # 0, count |-> c,
              strongCount |-> count + 1]
        ELSE [done |-> FALSE, locked |-> FALSE, count |-> c,
              strongCount |-> actual]

\* weak_ptr_lock_impl of sp.hpp from its compare_exchange_weak to the next
\* test of `while (count != 0)`: success fills the result and breaks, failure
\* reloads count.
WhileIteration(count, actual, spurious) ==
    LET ok == actual = count /\ ~spurious IN
    IF ok
    THEN [done |-> TRUE, locked |-> TRUE, count |-> count,
          strongCount |-> count + 1]
    ELSE IF LockMayAcquire(actual)
    THEN [done |-> FALSE, locked |-> FALSE, count |-> actual,
          strongCount |-> actual]
    ELSE [done |-> TRUE, locked |-> FALSE, count |-> actual,
          strongCount |-> actual]

\* WeakPtr::lock() of shared_ptr.hpp from its compare_exchange_weak to the
\* next one: success leaves the loop, failure reloads count and runs
\* `if (count == 0) break`; after the loop `if (count != 0)` fills the result.
DoWhileIteration(count, actual, spurious) ==
    LET ok == actual = count /\ ~spurious
        c  == IF ok THEN count ELSE actual
    IN  IF ok \/ c = 0
        THEN [done |-> TRUE, locked |-> c # 0, count |-> c,
              strongCount |-> IF ok THEN count + 1 ELSE actual]
        ELSE [done |-> FALSE, locked |-> FALSE, count |-> c,
              strongCount |-> actual]

\* weak_ptr_lock_impl run from the value its first load returns against the
\* compare-exchange outcomes sched; done is FALSE when sched ends inside the
\* loop.
RECURSIVE weak_ptr_lock_impl(_, _, _)
weak_ptr_lock_impl(count, strong, sched) ==
    IF ~LockMayAcquire(count)
    THEN [done |-> TRUE, locked |-> FALSE, count |-> count,
          strongCount |-> strong]
    ELSE IF sched = <<>>
    THEN [done |-> FALSE, locked |-> FALSE, count |-> count,
          strongCount |-> strong]
    ELSE LET r == WhileIteration(count, Head(sched).actual,
                                 Head(sched).spurious)
         IN  IF r.done THEN r
             ELSE weak_ptr_lock_impl(r.count, r.strongCount, Tail(sched))

\* WeakPtr::lock() of shared_ptr.hpp run the same way.
RECURSIVE WeakPtr_lock(_, _, _)
WeakPtr_lock(count, strong, sched) ==
    IF count = 0
    THEN [done |-> TRUE, locked |-> count # 0, count |-> count,
          strongCount |-> strong]
    ELSE IF sched = <<>>
    THEN [done |-> FALSE, locked |-> FALSE, count |-> count,
          strongCount |-> strong]
    ELSE LET r == DoWhileIteration(count, Head(sched).actual,
                                   Head(sched).spurious)
         IN  IF r.done THEN r
             ELSE WeakPtr_lock(r.count, r.strongCount, Tail(sched))

\* The compare-exchange outcomes of at most MaxIter iterations over the
\* counter values V.
Schedules(V) ==
    UNION {[1..n -> [actual : V, spurious : BOOLEAN]] : n \in 0..MaxIter}

\* C36: the while loop of sp.hpp and the do-while loop of shared_ptr.hpp are
\* equivalent: from the same first load and against the same sequence of
\* strongCount values and compare-exchange outcomes both have returned or
\* both have not, both results are empty or both non-empty, and strongCount
\* ends with the same value.  The steps of both lock() actions are the
\* iterations of these loops.
C36_LockLoopsEquivalent ==
    /\ [](\A t \in Threads :
            th[t].pc \in {"lock_cas", "lock_do"} =>
              LET V == Garbage \cup {strongCount[th[t].ctl], th[t].cnt} IN
              \A count \in V, sched \in Schedules(V) :
                 weak_ptr_lock_impl(count, count, sched)
                   = WeakPtr_lock(count, count, sched))
    /\ [][\A t \in Threads :
            LET b == th[t].ctl IN
            /\ (WeakPtrLockCas(t) /\ Valid(b))
               => \E spurious \in BOOLEAN :
                     LET r == WhileIteration(th[t].cnt, strongCount[b],
                                             spurious)
                     IN  /\ r.done <=> th'[t].pc = "idle"
                         /\ r.locked <=> sp' # sp
                         /\ ~r.done => th'[t].cnt = r.count
                         /\ strongCount'[b] = r.strongCount
            /\ (WeakPtrLockDoCas(t) /\ Valid(b))
               => \E spurious \in BOOLEAN :
                     LET r == DoWhileIteration(th[t].cnt, strongCount[b],
                                               spurious)
                     IN  /\ r.done <=> th'[t].pc = "idle"
                         /\ r.locked <=> sp' # sp
                         /\ ~r.done => th'[t].cnt = r.count
                         /\ strongCount'[b] = r.strongCount
            /\ \A k \in WSlots, j \in SSlots :
                 (wp[k].ctl # 0 /\ Valid(wp[k].ctl)
                    /\ (WeakPtrLock(t, k, j) \/ WeakPtrLockDo(t, k, j)))
                 => LET c == strongCount[wp[k].ctl]
                        w == weak_ptr_lock_impl(c, c, <<>>)
                        d == WeakPtr_lock(c, c, <<>>)
                    IN  /\ w = d
                        /\ w.done <=> th'[t].pc = "idle"
                        /\ sp' = sp /\ strongCount' = strongCount]_vars

\* A do-while lock() holds an expected value that a concurrent update has
\* made stale: its next compare-exchange fails, reloads and tests again.
C36_Witness ==
    \E t \in Threads :
       /\ th[t].pc = "lock_do"
       /\ Valid(th[t].ctl) /\ payload[th[t].ctl] = "live"
       /\ strongCount[th[t].ctl] > th[t].cnt
====
